---- MODULE Spec2Model ----
(***************************************************************************)
(* A model of the VAT ABCD crawler: the surrogate-key registry, the        *)
(* PostgreSQL sink (temporary schema, COPY inserts, schema migration), the *)
(* streaming ABCD parser and the orchestrator (main_all/process_datasets). *)
(***************************************************************************)
EXTENDS Integers, Sequences, FiniteSets, TLC

VARIABLES
    pc,             \* position of the run in main / main_all / process_datasets
    datasets,       \* the enumerated PangaeaSearchResultEntry list
    di,             \* index of the dataset the loop is at (1-based)
    archive,        \* members of the archive opened for datasets[di]
    mi,             \* index of the next archive member
    all_inserts_successful,
    temp_dir,       \* files of the run's temp directory: file name -> content
    storage_dir,    \* files of the storage (cache) directory: file name -> content
    surrogate_key,  \* DatabaseSink.surrogate_key: [id_to_key, next_key]
    sink_fields,    \* DatabaseSink.dataset_fields / unit_fields
    db,             \* the PostgreSQL schema: table name -> table or NoTable
    parser,         \* AbcdParser fields that outlive a parse call
    log             \* history: the calls made so far with their outcomes, in order

vars == <<pc, datasets, di, archive, mi, all_inserts_successful, temp_dir,
          storage_dir, surrogate_key, sink_fields, db, parser, log>>

----------------------------------------------------------------------------
(* Bounds of the model *)

MaxDatasets == 2
MaxInserts == 2
MaxCalls == 4

----------------------------------------------------------------------------
(* Small helpers *)

Range(f) == {f[x] : x \in DOMAIN f}

RECURSIVE SeqsUpTo(_, _)
SeqsUpTo(S, n) ==
    IF n = 0 THEN {<<>>}
    ELSE LET shorter == SeqsUpTo(S, n - 1)
         IN shorter \cup {Append(s, x) : s \in {t \in shorter : Len(t) = n - 1}, x \in S}

Count(seq, P(_)) == Cardinality({i \in DOMAIN seq : P(seq[i])})

One(S) == CHOOSE x \in S : TRUE

----------------------------------------------------------------------------
(* settings.rs: DatabaseSettings (the names are configuration values) *)

database_settings ==
    [dataset_table               |-> "abcd_datasets",
     listing_view                |-> "dataset_listing",
     temp_dataset_table          |-> "abcd_datasets_temp",
     surrogate_key_column        |-> "surrogate_key",
     dataset_id_column           |-> "dataset_id",
     dataset_path_column         |-> "dataset_path",
     dataset_landing_page_column |-> "dataset_landing_page",
     dataset_provider_column     |-> "dataset_provider",
     unit_table                  |-> "abcd_units",
     temp_unit_table             |-> "abcd_units_temp",
     unit_indexed_columns        |-> <<>>]

TitlePath == "/DataSets/DataSet/Metadata/Description/Representation/Title"
UriPath == "/DataSets/DataSet/Metadata/Description/Representation/URI"
UnitIdPath == "/DataSets/DataSet/Units/Unit/UnitID"
LongitudePath == "/DataSets/DataSet/Units/Unit/Gathering/SiteCoordinateSets/SiteCoordinates/CoordinatesLatLong/LongitudeDecimal"
LatitudePath == "/DataSets/DataSet/Units/Unit/Gathering/SiteCoordinateSets/SiteCoordinates/CoordinatesLatLong/LatitudeDecimal"

abcd_settings == [landing_page_field |-> UriPath]

(* abcd_fields.rs: the dictionary, a map from path to AbcdField *)
abcd_fields ==
    [p \in {TitlePath, UriPath, UnitIdPath, LongitudePath, LatitudePath} |->
        [name |-> p,
         numeric |-> p \in {LongitudePath, LatitudePath},
         global_field |-> p \in {TitlePath, UriPath}]]

(* AbcdFields::value_of: Some(field) or None *)
value_of(fields, path) ==
    IF path \in DOMAIN fields THEN [some |-> TRUE, field |-> fields[path]]
    ELSE [some |-> FALSE, field |-> [name |-> "", numeric |-> FALSE, global_field |-> FALSE]]

(* field.rs: Field::hash_as_hex, the SHA-1 hex digest of the path *)
Sha1Hex ==
    [p \in DOMAIN abcd_fields |->
        CASE p = TitlePath -> "118bb6a92bc934803314ce2711baca3d8232e4dc"
          [] p = UriPath -> "b680a531f806d3a31ff486fdad601956d30eff39"
          [] p = UnitIdPath -> "adf8c075f2c6b97eaab5cee8f22e97abfdaf6b71"
          [] p = LongitudePath -> "e9eefbe81d4343c6a114b7d522017bf493b89cef"
          [] p = LatitudePath -> "506e190d0ad979d1c7a816223d1ded3604907d91"]

FieldNew(name) == [name |-> name, hash |-> Sha1Hex[name]]

(* The orders in which one HashMap iteration may yield the dictionary. *)
IterationOrders ==
    {<<TitlePath, UriPath, UnitIdPath, LongitudePath, LatitudePath>>,
     <<LatitudePath, UnitIdPath, UriPath, LongitudePath, TitlePath>>}

(* create_lists_of_dataset_and_unit_fields that takes every field as a unit field *)
create_lists_with_unit_fields_only(order) ==
    [dataset_fields |-> <<>>,
     unit_fields |-> [i \in DOMAIN order |-> FieldNew(abcd_fields[order[i]].name)]]

(* DatabaseSink::create_lists_of_dataset_and_unit_fields, for one iteration order *)
create_lists_of_dataset_and_unit_fields(order) ==
    LET fieldOf(i) == FieldNew(abcd_fields[order[i]].name)
        pick(global) ==
            LET idx == SelectSeq([i \in DOMAIN order |-> i],
                                 LAMBDA i : abcd_fields[order[i]].global_field = global)
            IN [k \in DOMAIN idx |-> fieldOf(idx[k])]
    IN [dataset_fields |-> pick(TRUE), unit_fields |-> pick(FALSE)]

----------------------------------------------------------------------------
(* surrogate_key.rs *)

SurrogateKeyNew == [id_to_key |-> <<>>, next_key |-> 1]

(* for_id that forgets to advance next_key *)
for_id_without_increment(sk, id) ==
    IF id \in DOMAIN sk.id_to_key
    THEN [sk |-> sk, ret |-> [type |-> "Existing", key |-> sk.id_to_key[id]]]
    ELSE [sk |-> [id_to_key |-> [x \in DOMAIN sk.id_to_key \cup {id} |->
                                    IF x = id THEN sk.next_key ELSE sk.id_to_key[x]],
                  next_key |-> sk.next_key],
          ret |-> [type |-> "New", key |-> sk.next_key]]

(* for_id that advances next_key in the Occupied arm as well *)
for_id_advancing_when_occupied(sk, id) ==
    IF id \in DOMAIN sk.id_to_key
    THEN [sk |-> [sk EXCEPT !.next_key = sk.next_key + 1],
          ret |-> [type |-> "Existing", key |-> sk.id_to_key[id]]]
    ELSE [sk |-> [id_to_key |-> [x \in DOMAIN sk.id_to_key \cup {id} |->
                                    IF x = id THEN sk.next_key ELSE sk.id_to_key[x]],
                  next_key |-> sk.next_key + 1],
          ret |-> [type |-> "New", key |-> sk.next_key]]

(* for_id with the Occupied arm lost: every call assigns a new key *)
for_id_always_vacant(sk, id) ==
    [sk |-> [id_to_key |-> [x \in DOMAIN sk.id_to_key \cup {id} |->
                              IF x = id THEN sk.next_key ELSE sk.id_to_key[x]],
             next_key |-> sk.next_key + 1],
     ret |-> [type |-> "New", key |-> sk.next_key]]

(* SurrogateKey::for_id: the registry after the call and the value returned *)
for_id(sk, id) ==
    IF id \in DOMAIN sk.id_to_key
    THEN [sk |-> sk, ret |-> [type |-> "Existing", key |-> sk.id_to_key[id]]]
    ELSE [sk |-> [id_to_key |-> [x \in DOMAIN sk.id_to_key \cup {id} |->
                                    IF x = id THEN sk.next_key ELSE sk.id_to_key[x]],
                  next_key |-> sk.next_key + 1],
          ret |-> [type |-> "New", key |-> sk.next_key]]

----------------------------------------------------------------------------
(* The PostgreSQL schema the sink works on.  A relation is a record        *)
(* [kind, cols, rows, objs, def]: objs are the constraints and indexes     *)
(* attached to a table, def is the definition of a view.                   *)

NoTable == [kind |-> "none", cols |-> <<>>, rows |-> <<>>, objs |-> {}, def |-> <<>>]

TranslationOf(table) == table \o "_translation"

TableNames ==
    {database_settings.temp_dataset_table, database_settings.temp_unit_table,
     TranslationOf(database_settings.temp_dataset_table),
     database_settings.dataset_table, database_settings.unit_table,
     TranslationOf(database_settings.dataset_table),
     database_settings.listing_view}

Null == [t |-> "null", s |-> ""]
Text(s) == [t |-> "text", s |-> s]
Double(s) == [t |-> "double", s |-> s]

Exists(d, name) == d[name].kind # "none"

(* every constraint and index name of the schema *)
ObjNames(d) == UNION {{o.name : o \in d[n].objs} : n \in TableNames}

(* relations that depend on table `name`: foreign keys of other tables and views *)
Dependents(d, name) ==
    {n \in TableNames \ {name} :
        \/ \E o \in d[n].objs : o.kind = "fk" /\ o.ref = name
        \/ d[n].kind = "view" /\ name \in Range(d[n].def.tables)}

Ok(d) == [ok |-> TRUE, db |-> d]
Failed(d) == [ok |-> FALSE, db |-> d]

RECURSIVE SortByKey(_, _)
(* rows in the order of a B-tree index on the surrogate key (stable) *)
SortByKey(rows, k) ==
    IF rows = <<>> THEN <<>>
    ELSE LET col == database_settings.surrogate_key_column
             hit == SelectSeq(rows, LAMBDA r : r[col] = k)
             rest == SelectSeq(rows, LAMBDA r : r[col] # k)
         IN hit \o SortByKey(rest, k + 1)

(* A COPY field as PostgreSQL reads it into a column: '' is NULL. *)
CopyValue(col, field) ==
    IF col.type = "int" THEN field
    ELSE IF field = "" THEN Null
    ELSE IF col.type = "double precision" THEN Double(field)
    ELSE IF col.type = "text" THEN Text(field)
    ELSE [t |-> "geometry", s |-> field]

ColNamed(t, name) == CHOOSE c \in Range(t.cols) : c.name = name

(* relation r after table `from` was renamed `to`: its references follow *)
Retarget(r, from, to) ==
    [kind |-> r.kind, cols |-> r.cols, rows |-> r.rows,
     objs |-> {IF o.kind = "fk" /\ o.ref = from
               THEN [o EXCEPT !.ref = to] ELSE o : o \in r.objs},
     def |-> IF r.kind = "view"
             THEN [r.def EXCEPT !.tables =
                       [i \in DOMAIN r.def.tables |->
                           IF r.def.tables[i] = from THEN to ELSE r.def.tables[i]]]
             ELSE r.def]

(* One statement executed by the server: the schema after it, or an error  *)
(* that leaves the schema as it was.                                       *)
Exec(d, st) ==
    CASE st.op = "drop_table_if_exists" ->
            IF ~Exists(d, st.table) THEN Ok(d)
            ELSE IF d[st.table].kind # "table" \/ Dependents(d, st.table) # {} THEN Failed(d)
            ELSE Ok([d EXCEPT ![st.table] = NoTable])
      [] st.op = "drop_view_if_exists" ->
            IF ~Exists(d, st.table) THEN Ok(d)
            ELSE IF d[st.table].kind # "view" THEN Failed(d)
            ELSE Ok([d EXCEPT ![st.table] = NoTable])
      [] st.op = "create_table" ->
            IF Exists(d, st.table) THEN Failed(d)
            ELSE Ok([d EXCEPT ![st.table] =
                        [kind |-> "table", cols |-> st.cols, rows |-> <<>>,
                         objs |-> {[kind |-> "pkey", name |-> st.table \o "_pkey", ref |-> "",
                                    columns |-> <<c.name>>] :
                                      c \in {c \in Range(st.cols) : c.pk}},
                         def |-> <<>>]])
      [] st.op = "insert" ->
            IF d[st.table].kind # "table" THEN Failed(d)
            ELSE Ok([d EXCEPT ![st.table].rows = Append(@, st.row)])
      [] st.op = "copy" ->
            LET t == d[st.table]
                rowOf(fields) ==
                    [c \in {col.name : col \in Range(t.cols)} |->
                        IF \E i \in DOMAIN st.columns : st.columns[i] = c
                        THEN CopyValue(ColNamed(t, c),
                                 fields[CHOOSE i \in DOMAIN st.columns : st.columns[i] = c])
                        ELSE Null]
                new == [i \in DOMAIN st.rows |-> rowOf(st.rows[i])]
                all == t.rows \o new
                keyCol == database_settings.surrogate_key_column
            IN  IF t.kind # "table" THEN Failed(d)
                ELSE IF \E i \in DOMAIN st.columns :
                            st.columns[i] \notin {col.name : col \in Range(t.cols)}
                THEN Failed(d)
                ELSE IF \E i \in DOMAIN st.rows : Len(st.rows[i]) # Len(st.columns)
                THEN Failed(d)
                ELSE IF \E i \in DOMAIN new : \E c \in Range(t.cols) :
                            c.not_null /\ c.type # "int" /\ new[i][c.name] = Null
                THEN Failed(d)
                ELSE IF (\E c \in Range(t.cols) : c.pk)
                        /\ \E i, j \in DOMAIN all : i # j /\ all[i][keyCol] = all[j][keyCol]
                THEN Failed(d)
                ELSE IF \E o \in t.objs : o.kind = "fk"
                            /\ \E i \in DOMAIN new :
                                  \A j \in DOMAIN d[o.ref].rows :
                                      d[o.ref].rows[j][keyCol] # new[i][keyCol]
                THEN Failed(d)
                ELSE Ok([d EXCEPT ![st.table].rows = all])
      [] st.op = "add_foreign_key" ->
            LET keyCol == database_settings.surrogate_key_column
            IN  IF d[st.table].kind # "table" \/ d[st.ref].kind # "table" THEN Failed(d)
                ELSE IF st.name \in {o.name : o \in d[st.table].objs} THEN Failed(d)
                ELSE IF \E i \in DOMAIN d[st.table].rows :
                            \A j \in DOMAIN d[st.ref].rows :
                                d[st.ref].rows[j][keyCol] # d[st.table].rows[i][keyCol]
                THEN Failed(d)
                ELSE Ok([d EXCEPT ![st.table].objs =
                            @ \cup {[kind |-> "fk", name |-> st.name, ref |-> st.ref,
                                     columns |-> <<keyCol>>]}])
      [] st.op = "create_index" ->
            IF d[st.table].kind # "table" THEN Failed(d)
            ELSE IF st.name \in ObjNames(d) \/ (st.name \in TableNames /\ Exists(d, st.name))
            THEN Failed(d)
            ELSE IF \E i \in DOMAIN st.columns :
                        st.columns[i] \notin {c.name : c \in Range(d[st.table].cols)}
            THEN Failed(d)
            ELSE Ok([d EXCEPT ![st.table].objs =
                        @ \cup {[kind |-> st.method, name |-> st.name, ref |-> "",
                                 columns |-> st.columns]}])
      [] st.op = "cluster" ->
            IF d[st.table].kind # "table"
               \/ (~\E o \in d[st.table].objs : (o.name = st.name /\ o.kind = "btree"))
            THEN Failed(d)
            ELSE Ok([d EXCEPT ![st.table].rows = SortByKey(@, 1)])
      [] st.op = "vacuum_analyze" ->
            IF d[st.table].kind # "table" THEN Failed(d) ELSE Ok(d)
      [] st.op = "rename_table" ->
            IF d[st.table].kind # "table" \/ Exists(d, st.to) THEN Failed(d)
            ELSE Ok([n \in TableNames |->
                        IF n = st.to THEN d[st.table]
                        ELSE IF n = st.table THEN NoTable
                        ELSE Retarget(d[n], st.table, st.to)])
      [] st.op = "rename_constraint" ->
            IF d[st.table].kind # "table"
               \/ (~\E o \in d[st.table].objs : (o.name = st.name /\ o.kind \in {"pkey", "fk"}))
               \/ st.to \in {o.name : o \in d[st.table].objs}
            THEN Failed(d)
            ELSE Ok([d EXCEPT ![st.table].objs =
                        {IF o.name = st.name THEN [o EXCEPT !.name = st.to] ELSE o : o \in @}])
      [] st.op = "rename_index" ->
            IF (~\E n \in TableNames : \E o \in d[n].objs :
                    (o.name = st.name /\ o.kind \in {"btree", "spgist", "pkey"}))
               \/ st.to \in ObjNames(d)
            THEN Failed(d)
            ELSE Ok([n \in TableNames |->
                        [d[n] EXCEPT !.objs =
                            {IF o.name = st.name /\ o.kind \in {"btree", "spgist", "pkey"}
                             THEN [o EXCEPT !.name = st.to] ELSE o : o \in @}]])
      [] st.op = "create_view" ->
            IF Exists(d, st.table) THEN Failed(d)
            ELSE IF \E i \in DOMAIN st.def.tables : d[st.def.tables[i]].kind # "table"
            THEN Failed(d)
            ELSE Ok([d EXCEPT ![st.table] =
                        [kind |-> "view", cols |-> <<>>, rows |-> <<>>, objs |-> {},
                         def |-> st.def]])

RECURSIVE RunFrom(_, _, _, _)
(* Statements i.. of stmts executed in order on the connection; the        *)
(* statement at position failAt fails for a reason outside the schema (the *)
(* connection, the disk).  Stops at the first error.                       *)
RunFrom(d, stmts, i, failAt) ==
    IF i > Len(stmts) THEN [ok |-> TRUE, db |-> d, done |-> i - 1]
    ELSE IF i = failAt THEN [ok |-> FALSE, db |-> d, done |-> i - 1]
    ELSE One({IF r.ok THEN RunFrom(r.db, stmts, i + 1, failAt)
              ELSE [ok |-> FALSE, db |-> d, done |-> i - 1] :
              r \in {One({Exec(d, st) : st \in {stmts[i]}})}})

----------------------------------------------------------------------------
(* storage/database_sink.rs: DatabaseSink *)

Col(name, type, not_null, pk) == [name |-> name, type |-> type, not_null |-> not_null, pk |-> pk]

FieldCols(fields) ==
    [i \in DOMAIN fields |->
        Col(fields[i].hash,
            IF value_of(abcd_fields, fields[i].name).field.numeric THEN "double precision" ELSE "text",
            FALSE, FALSE)]

(* drop_temporary_tables that drops the published translation table as well *)
drop_temporary_tables_and_old_translation ==
    <<[op |-> "drop_table_if_exists", table |-> database_settings.temp_unit_table],
      [op |-> "drop_table_if_exists", table |-> database_settings.temp_dataset_table],
      [op |-> "drop_table_if_exists",
       table |-> TranslationOf(database_settings.temp_dataset_table)],
      [op |-> "drop_table_if_exists",
       table |-> TranslationOf(database_settings.dataset_table)]>>

(* drop_temporary_tables that drops the listing view as well *)
drop_temporary_tables_and_listing_view ==
    <<[op |-> "drop_view_if_exists", table |-> database_settings.listing_view],
      [op |-> "drop_table_if_exists", table |-> database_settings.temp_unit_table],
      [op |-> "drop_table_if_exists", table |-> database_settings.temp_dataset_table],
      [op |-> "drop_table_if_exists",
       table |-> TranslationOf(database_settings.temp_dataset_table)]>>

(* DatabaseSink::drop_temporary_tables *)
drop_temporary_tables ==
    <<[op |-> "drop_table_if_exists", table |-> database_settings.temp_unit_table],
      [op |-> "drop_table_if_exists", table |-> database_settings.temp_dataset_table],
      [op |-> "drop_table_if_exists",
       table |-> TranslationOf(database_settings.temp_dataset_table)]>>

(* DatabaseSink::create_temporary_dataset_table *)
create_temporary_dataset_table(fields) ==
    <<[op |-> "create_table", table |-> database_settings.temp_dataset_table,
       cols |-> <<Col(database_settings.surrogate_key_column, "int", TRUE, TRUE),
                  Col(database_settings.dataset_id_column, "text", TRUE, FALSE),
                  Col(database_settings.dataset_path_column, "text", TRUE, FALSE),
                  Col(database_settings.dataset_landing_page_column, "text", TRUE, FALSE),
                  Col(database_settings.dataset_provider_column, "text", TRUE, FALSE)>>
                \o FieldCols(fields.dataset_fields)]>>

(* DatabaseSink::create_temporary_unit_table *)
create_temporary_unit_table(fields) ==
    <<[op |-> "create_table", table |-> database_settings.temp_unit_table,
       cols |-> <<Col(database_settings.surrogate_key_column, "int", TRUE, FALSE),
                  Col("geom", "geometry(Point)", FALSE, FALSE)>>
                \o FieldCols(fields.unit_fields)]>>

(* create_and_fill_temporary_mapping_table that writes the dataset fields only *)
create_and_fill_mapping_table_of_dataset_fields(fields) ==
    LET table == TranslationOf(database_settings.temp_dataset_table)
        all == fields.dataset_fields
    IN <<[op |-> "create_table", table |-> table,
          cols |-> <<Col("name", "text", TRUE, FALSE), Col("hash", "text", TRUE, FALSE)>>]>>
       \o [i \in DOMAIN all |->
              [op |-> "insert", table |-> table,
               row |-> [name |-> Text(all[i].name), hash |-> Text(all[i].hash)]]]

(* DatabaseSink::create_and_fill_temporary_mapping_table *)
create_and_fill_temporary_mapping_table(fields) ==
    LET table == TranslationOf(database_settings.temp_dataset_table)
        all == fields.dataset_fields \o fields.unit_fields
    IN <<[op |-> "create_table", table |-> table,
          cols |-> <<Col("name", "text", TRUE, FALSE), Col("hash", "text", TRUE, FALSE)>>]>>
       \o [i \in DOMAIN all |->
              [op |-> "insert", table |-> table,
               row |-> [name |-> Text(all[i].name), hash |-> Text(all[i].hash)]]]

(* DatabaseSink::initialize_temporary_schema *)
initialize_temporary_schema(fields) ==
    drop_temporary_tables \o create_temporary_dataset_table(fields)
        \o create_temporary_unit_table(fields)
        \o create_and_fill_temporary_mapping_table(fields)

(* DatabaseSink::new on schema d: failAt = 0 is no outside failure,        *)
(* failAt = k is an outside failure of the k-th statement.                 *)
DatabaseSinkNew(d, order, failAt) ==
    One({One({[ok |-> r.ok, db |-> r.db, fields |-> fields,
               surrogate_key |-> SurrogateKeyNew] :
              r \in {One({RunFrom(d, stmts, 1, failAt) :
                          stmts \in {initialize_temporary_schema(fields)}})}}) :
         fields \in {create_lists_of_dataset_and_unit_fields(order)}})

(* VatType's Display: a number is held as its shortest decimal form *)
to_string(value) == value.s

Lookup(map, name) == IF name \in DOMAIN map THEN to_string(map[name]) ELSE ""

(* DatabaseSink::insert_dataset_metadata: the COPY statement and its one row *)
insert_dataset_metadata(dataset_fields, abcd_data, id) ==
    [op |-> "copy", table |-> database_settings.temp_dataset_table,
     columns |-> <<database_settings.surrogate_key_column,
                   database_settings.dataset_id_column,
                   database_settings.dataset_path_column,
                   database_settings.dataset_landing_page_column,
                   database_settings.dataset_provider_column>>
                 \o [i \in DOMAIN dataset_fields |-> dataset_fields[i].hash],
     rows |-> << <<id, abcd_data.dataset_id, abcd_data.dataset_path,
                   abcd_data.landing_page, abcd_data.provider_name>>
                 \o [i \in DOMAIN dataset_fields |->
                        Lookup(abcd_data.dataset, dataset_fields[i].name)] >>]

(* GeomField that makes a point of every unit that has a longitude *)
GeomField_of_longitude_alone(unit_fields, unit_data) ==
    LET has(path) == \E i \in DOMAIN unit_fields :
                        unit_fields[i].name = path /\ path \in DOMAIN unit_data
    IN IF has(LongitudePath)
       THEN "POINT(" \o to_string(unit_data[LongitudePath]) \o " "
                \o Lookup(unit_data, LatitudePath) \o ")"
       ELSE ""

(* the geom field of a unit row: lon and lat are set while the unit fields are walked *)
GeomField(unit_fields, unit_data) ==
    LET has(path) == \E i \in DOMAIN unit_fields :
                        unit_fields[i].name = path /\ path \in DOMAIN unit_data
    IN IF has(LongitudePath) /\ has(LatitudePath)
       THEN "POINT(" \o to_string(unit_data[LongitudePath]) \o " "
                \o to_string(unit_data[LatitudePath]) \o ")"
       ELSE ""

(* insert_units writing the position of the unit where the surrogate key belongs *)
insert_units_position_as_key(unit_fields, abcd_data, id) ==
    [op |-> "copy", table |-> database_settings.temp_unit_table,
     columns |-> <<database_settings.surrogate_key_column>>
                 \o [i \in DOMAIN unit_fields |-> unit_fields[i].hash]
                 \o <<"geom">>,
     rows |-> [u \in DOMAIN abcd_data.units |->
                 <<u>>
                 \o [i \in DOMAIN unit_fields |->
                        Lookup(abcd_data.units[u], unit_fields[i].name)]
                 \o <<GeomField(unit_fields, abcd_data.units[u])>>]]

(* insert_units that writes no field where a unit has no value *)
insert_units_skipping_missing(unit_fields, abcd_data, id) ==
    [op |-> "copy", table |-> database_settings.temp_unit_table,
     columns |-> <<database_settings.surrogate_key_column>>
                 \o [i \in DOMAIN unit_fields |-> unit_fields[i].hash]
                 \o <<"geom">>,
     rows |-> [u \in DOMAIN abcd_data.units |->
                 <<id>>
                 \o [i \in DOMAIN SelectSeq(unit_fields,
                                            LAMBDA f : f.name \in DOMAIN abcd_data.units[u]) |->
                        Lookup(abcd_data.units[u],
                               SelectSeq(unit_fields,
                                         LAMBDA f : f.name \in DOMAIN abcd_data.units[u])[i].name)]
                 \o <<GeomField(unit_fields, abcd_data.units[u])>>]]

(* insert_units writing the units last to first *)
insert_units_in_reverse(unit_fields, abcd_data, id) ==
    [op |-> "copy", table |-> database_settings.temp_unit_table,
     columns |-> <<database_settings.surrogate_key_column>>
                 \o [i \in DOMAIN unit_fields |-> unit_fields[i].hash]
                 \o <<"geom">>,
     rows |-> [u \in DOMAIN abcd_data.units |->
                 <<id>>
                 \o [i \in DOMAIN unit_fields |->
                        Lookup(abcd_data.units[Len(abcd_data.units) + 1 - u],
                               unit_fields[i].name)]
                 \o <<GeomField(unit_fields, abcd_data.units[Len(abcd_data.units) + 1 - u])>>]]

(* DatabaseSink::insert_units: the COPY statement with one row per unit *)
insert_units(unit_fields, abcd_data, id) ==
    [op |-> "copy", table |-> database_settings.temp_unit_table,
     columns |-> <<database_settings.surrogate_key_column>>
                 \o [i \in DOMAIN unit_fields |-> unit_fields[i].hash]
                 \o <<"geom">>,
     rows |-> [u \in DOMAIN abcd_data.units |->
                 <<id>>
                 \o [i \in DOMAIN unit_fields |->
                        Lookup(abcd_data.units[u], unit_fields[i].name)]
                 \o <<GeomField(unit_fields, abcd_data.units[u])>>]]

InsertFaults == {"none", "dataset_copy", "unit_copy"}

(* insert_dataset that writes the dataset row for an existing id as well *)
insert_dataset_writing_every_metadata(sk, fields, d, abcd_data, fault) ==
    One({One({One({[ok |-> meta.ok /\ units.ok,
                    surrogate_key |-> k.sk,
                    db |-> units.db,
                    ret |-> k.ret,
                    failed_at |-> IF ~meta.ok THEN "dataset_copy"
                                  ELSE IF ~units.ok THEN "unit_copy" ELSE "none"] :
                   units \in {IF ~meta.ok \/ fault = "unit_copy" THEN Failed(meta.db)
                              ELSE One({Exec(meta.db, st) :
                                        st \in {insert_units(fields.unit_fields, abcd_data,
                                                             k.ret.key)}})}}) :
              meta \in {IF fault = "dataset_copy" THEN Failed(d)
                        ELSE One({Exec(d, st) :
                                  st \in {insert_dataset_metadata(fields.dataset_fields,
                                                                  abcd_data, k.ret.key)}})}}) :
         k \in {for_id(sk, abcd_data.dataset_id)}})

(* DatabaseSink::insert_dataset.  fault names the COPY that fails for a    *)
(* reason outside the schema, if it is reached.                            *)
insert_dataset(sk, fields, d, abcd_data, fault) ==
    One({One({One({[ok |-> meta.ok /\ units.ok,
                    surrogate_key |-> k.sk,
                    db |-> units.db,
                    ret |-> k.ret,
                    failed_at |-> IF ~meta.ok THEN "dataset_copy"
                                  ELSE IF ~units.ok THEN "unit_copy" ELSE "none"] :
                   units \in {IF ~meta.ok \/ fault = "unit_copy" THEN Failed(meta.db)
                              ELSE One({Exec(meta.db, st) :
                                        st \in {insert_units(fields.unit_fields, abcd_data,
                                                             k.ret.key)}})}}) :
              meta \in {IF k.ret.type = "New"
                        THEN IF fault = "dataset_copy" THEN Failed(d)
                             ELSE One({Exec(d, st) :
                                       st \in {insert_dataset_metadata(fields.dataset_fields,
                                                                       abcd_data, k.ret.key)}})
                        ELSE Ok(d)}}) :
         k \in {for_id(sk, abcd_data.dataset_id)}})

(* unit_index_statement that leaves out the configured columns *)
unit_index_statement_of_key_alone(unit_indexed_columns) ==
    [op |-> "create_index", name |-> database_settings.temp_unit_table \o "_idx",
     table |-> database_settings.temp_unit_table, method |-> "btree",
     columns |-> <<database_settings.surrogate_key_column>>]

(* create_indexes_and_statistics: the CREATE INDEX ... USING btree         *)
(* statement for a configured list of indexed unit columns: the surrogate  *)
(* key, then the quoted hash of each configured column                     *)
unit_index_statement(unit_indexed_columns) ==
    [op |-> "create_index", name |-> database_settings.temp_unit_table \o "_idx",
     table |-> database_settings.temp_unit_table, method |-> "btree",
     columns |-> <<database_settings.surrogate_key_column>>
                 \o [i \in DOMAIN unit_indexed_columns |->
                        FieldNew(unit_indexed_columns[i]).hash]]

(* DatabaseSink::create_indexes_and_statistics *)
create_indexes_and_statistics ==
    LET unit == database_settings.temp_unit_table
        key == database_settings.surrogate_key_column
    IN <<[op |-> "add_foreign_key", table |-> unit, name |-> unit \o "_" \o key \o "_fk",
          ref |-> database_settings.temp_dataset_table],
         unit_index_statement(database_settings.unit_indexed_columns),
         [op |-> "create_index", name |-> unit \o "_geom_idx", table |-> unit,
          method |-> "spgist", columns |-> <<"geom">>],
         [op |-> "cluster", name |-> unit \o "_idx", table |-> unit],
         [op |-> "vacuum_analyze", table |-> database_settings.temp_dataset_table],
         [op |-> "vacuum_analyze", table |-> unit]>>

(* drop_old_tables that drops the dataset table before the unit table *)
drop_old_tables_dataset_table_first ==
    <<[op |-> "drop_view_if_exists", table |-> database_settings.listing_view],
      [op |-> "drop_table_if_exists", table |-> database_settings.dataset_table],
      [op |-> "drop_table_if_exists", table |-> database_settings.unit_table],
      [op |-> "drop_table_if_exists", table |-> TranslationOf(database_settings.dataset_table)]>>

(* DatabaseSink::drop_old_tables *)
drop_old_tables ==
    <<[op |-> "drop_view_if_exists", table |-> database_settings.listing_view],
      [op |-> "drop_table_if_exists", table |-> database_settings.unit_table],
      [op |-> "drop_table_if_exists", table |-> database_settings.dataset_table],
      [op |-> "drop_table_if_exists", table |-> TranslationOf(database_settings.dataset_table)]>>

(* rename_temporary_tables without the translation table *)
rename_temporary_tables_without_translation ==
    <<[op |-> "rename_table", table |-> database_settings.temp_unit_table,
       to |-> database_settings.unit_table],
      [op |-> "rename_table", table |-> database_settings.temp_dataset_table,
       to |-> database_settings.dataset_table]>>

(* DatabaseSink::rename_temporary_tables *)
rename_temporary_tables ==
    <<[op |-> "rename_table", table |-> database_settings.temp_unit_table,
       to |-> database_settings.unit_table],
      [op |-> "rename_table", table |-> database_settings.temp_dataset_table,
       to |-> database_settings.dataset_table],
      [op |-> "rename_table", table |-> TranslationOf(database_settings.temp_dataset_table),
       to |-> TranslationOf(database_settings.dataset_table)]>>

(* DatabaseSink::rename_constraints_and_indexes *)
rename_constraints_and_indexes ==
    LET key == database_settings.surrogate_key_column
    IN <<[op |-> "rename_constraint", table |-> database_settings.dataset_table,
          name |-> database_settings.temp_dataset_table \o "_pkey",
          to |-> database_settings.dataset_table \o "_pkey"],
         [op |-> "rename_constraint", table |-> database_settings.unit_table,
          name |-> database_settings.temp_unit_table \o "_" \o key \o "_fk",
          to |-> database_settings.unit_table \o "_" \o key \o "_fk"],
         [op |-> "rename_index", name |-> database_settings.temp_unit_table \o "_idx",
          to |-> database_settings.unit_table \o "_idx"],
         [op |-> "rename_index", name |-> database_settings.temp_unit_table \o "_geom_idx",
          to |-> database_settings.unit_table \o "_geom_idx"]>>

FindHash(fields, path, default) ==
    IF \E i \in DOMAIN fields : fields[i].name = path
    THEN fields[CHOOSE i \in DOMAIN fields : fields[i].name = path].hash
    ELSE default

(* create_listing_view that takes the longitude column for the latitude too *)
create_listing_view_by_longitude(fields) ==
    <<[op |-> "create_view", table |-> database_settings.listing_view,
       def |-> [tables |-> <<database_settings.dataset_table, database_settings.unit_table>>,
                dataset_title |-> FindHash(fields.dataset_fields, TitlePath, "''"),
                latitude_column |-> FindHash(fields.unit_fields, LongitudePath, "NULL"),
                longitude_column |-> FindHash(fields.unit_fields, LongitudePath, "NULL")]]>>

(* DatabaseSink::create_listing_view *)
create_listing_view(fields) ==
    <<[op |-> "create_view", table |-> database_settings.listing_view,
       def |-> [tables |-> <<database_settings.dataset_table, database_settings.unit_table>>,
                dataset_title |-> FindHash(fields.dataset_fields, TitlePath, "''"),
                latitude_column |-> FindHash(fields.unit_fields, LatitudePath, "NULL"),
                longitude_column |-> FindHash(fields.unit_fields, LongitudePath, "NULL")]]>>

(* the rows the SELECT of the listing view yields on schema d *)
ViewRows(d) ==
    LET def == d[database_settings.listing_view].def
        dataset_table == d[def.tables[1]]
        unit_table == d[def.tables[2]]
        key == database_settings.surrogate_key_column
        value(row, column) == IF column = "NULL" THEN Null ELSE row[column]
        isGeoReferenced(row) ==
            \E u \in DOMAIN unit_table.rows :
                /\ unit_table.rows[u][key] = row[key]
                /\ value(unit_table.rows[u], def.latitude_column) # Null
                /\ value(unit_table.rows[u], def.longitude_column) # Null
    IN [i \in DOMAIN dataset_table.rows |->
           [link |-> dataset_table.rows[i][database_settings.dataset_landing_page_column],
            dataset |-> IF def.dataset_title = "''" THEN Text("")
                        ELSE dataset_table.rows[i][def.dataset_title],
            id |-> dataset_table.rows[i][database_settings.dataset_id_column],
            provider |-> dataset_table.rows[i][database_settings.dataset_provider_column],
            available |-> isGeoReferenced(dataset_table.rows[i]),
            isGeoReferenced |-> isGeoReferenced(dataset_table.rows[i])]]

(* the statements of the migration transaction, between start and commit *)
MigrationTransaction(fields) ==
    drop_old_tables \o rename_temporary_tables \o rename_constraints_and_indexes
        \o create_listing_view(fields)

(* the steps of migrate_schema, in order, start and commit of the transaction included *)
MigrationSteps(fields) ==
    [i \in DOMAIN create_indexes_and_statistics |-> create_indexes_and_statistics[i].op]
    \o <<"start_transaction">>
    \o [i \in DOMAIN MigrationTransaction(fields) |-> MigrationTransaction(fields)[i].op]
    \o <<"commit">>

NMigrationSteps ==
    Len(create_indexes_and_statistics) + Len(drop_old_tables) + Len(rename_temporary_tables)
        + Len(rename_constraints_and_indexes) + 3

(* migrate_schema whose failed transaction keeps what it executed *)
migrate_schema_without_rollback(d, fields, failAt) ==
    LET nPre == Len(create_indexes_and_statistics)
        nTx == Len(MigrationTransaction(fields))
    IN One({IF ~pre.ok THEN [ok |-> FALSE, db |-> pre.db, done |-> pre.done]
            ELSE IF failAt = nPre + 1 THEN [ok |-> FALSE, db |-> pre.db, done |-> nPre]
            ELSE One({IF ~tx.ok THEN [ok |-> FALSE, db |-> tx.db, done |-> nPre + 1 + tx.done]
                      ELSE IF failAt = nPre + nTx + 2
                           THEN [ok |-> FALSE, db |-> tx.db, done |-> nPre + 1 + nTx]
                      ELSE [ok |-> TRUE, db |-> tx.db, done |-> nPre + nTx + 2] :
                      tx \in {One({RunFrom(pre.db, stmts, 1, failAt - nPre - 1) :
                                   stmts \in {MigrationTransaction(fields)}})}}) :
            pre \in {One({RunFrom(d, stmts, 1, failAt) :
                          stmts \in {create_indexes_and_statistics}})}})

(* DatabaseSink::migrate_schema.  failAt = 0: no outside failure; failAt = *)
(* k: the k-th step fails for an outside reason.  An error inside the      *)
(* transaction drops it uncommitted, which rolls it back.                  *)
migrate_schema(d, fields, failAt) ==
    LET nPre == Len(create_indexes_and_statistics)
        nTx == Len(MigrationTransaction(fields))
    IN One({IF ~pre.ok THEN [ok |-> FALSE, db |-> pre.db, done |-> pre.done]
            ELSE IF failAt = nPre + 1 THEN [ok |-> FALSE, db |-> pre.db, done |-> nPre]
            ELSE One({IF ~tx.ok THEN [ok |-> FALSE, db |-> pre.db, done |-> nPre + 1 + tx.done]
                      ELSE IF failAt = nPre + nTx + 2
                           THEN [ok |-> FALSE, db |-> pre.db, done |-> nPre + 1 + nTx]
                      ELSE [ok |-> TRUE, db |-> tx.db, done |-> nPre + nTx + 2] :
                      tx \in {One({RunFrom(pre.db, stmts, 1, failAt - nPre - 1) :
                                   stmts \in {MigrationTransaction(fields)}})}}) :
            pre \in {One({RunFrom(d, stmts, 1, failAt) :
                          stmts \in {create_indexes_and_statistics}})}})

----------------------------------------------------------------------------
(* Parse results and schemas the sink is exercised with *)

Textual(s) == [t |-> "Textual", s |-> s]
Numeric(s) == [t |-> "Numeric", s |-> s]

AbcdResult(dataset_id, dataset_path, landing_page, provider_name, dataset, units) ==
    [dataset_id |-> dataset_id, dataset_path |-> dataset_path,
     landing_page |-> landing_page, provider_name |-> provider_name,
     dataset |-> dataset, units |-> units]

UnitFull == (UnitIdPath :> Textual("u1")) @@ (LongitudePath :> Numeric("10.911"))
                @@ (LatitudePath :> Numeric("49.911"))
UnitLonOnly == (UnitIdPath :> Textual("u2")) @@ (LongitudePath :> Numeric("1"))

SinkResults ==
    {AbcdResult("a", "url-a", "lp-a", "prov", (TitlePath :> Textual("T1")), <<UnitFull>>),
     AbcdResult("a", "url-a2", "lp-a2", "prov2", (TitlePath :> Textual("T2")),
                <<UnitLonOnly, UnitFull>>),
     AbcdResult("b", "url-b", "lp-b", "prov", <<>>, <<UnitLonOnly>>),
     AbcdResult("b", "url-b", "lp-b", "prov", <<>>,
                <<(UnitIdPath :> Textual("u3")) @@ (LatitudePath :> Numeric("49.911")),
                  (UnitIdPath :> Textual("u4")),
                  (LongitudePath :> Numeric("10")) @@ (LatitudePath :> Numeric("1"))>>),
     AbcdResult("c", "url-c", "lp-c", "prov", <<>>, <<>>)}

EmptySchema == [n \in TableNames |-> NoTable]

DefaultOrder == CHOOSE o \in IterationOrders : o[1] = TitlePath

OldResult == AbcdResult("old", "url-old", "lp-old", "prov", (TitlePath :> Textual("T0")),
                        <<UnitFull>>)

(* the schema a run that inserted OldResult leaves on top of d: killed     *)
(* after its inserts, killed after create_indexes_and_statistics, or done  *)
AfterRun(d, stage) ==
    One({One({IF stage = "inserted" THEN i.db
              ELSE IF stage = "indexed"
                   THEN RunFrom(i.db, create_indexes_and_statistics, 1, 0).db
              ELSE migrate_schema(i.db, s.fields, 0).db :
              i \in {insert_dataset(s.surrogate_key, s.fields, s.db, OldResult, "none")}}) :
         s \in {DatabaseSinkNew(d, DefaultOrder, 0)}})

PublishedSchema == AfterRun(EmptySchema, "migrated")

(* The schemas a run may start on: nothing, the tables a previous run      *)
(* published, and either with the temporary tables of a killed run.        *)
PriorSchemas ==
    {EmptySchema, PublishedSchema, AfterRun(EmptySchema, "indexed")}
        \cup {AfterRun(p, "inserted") : p \in {PublishedSchema}}

LogEntry(op, ok, id, type, key, stage, n) ==
    [op |-> op, ok |-> ok, id |-> id, type |-> type, key |-> key, stage |-> stage, n |-> n]

Last == IF log = <<>> THEN LogEntry("none", TRUE, "", "", 0, "", 0) ELSE log[Len(log)]

Inserts == SelectSeq(log, LAMBDA e : e.op = "insert_dataset")

NoFields == [dataset_fields |-> <<>>, unit_fields |-> <<>>]

(* AbcdParser::new *)
AbcdParserNew(settings, fields) ==
    [abcd_settings |-> settings, abcd_fields |-> fields, abcd_version |-> "Unknown",
     xml_tag_path |-> "", xml_buffer |-> "", values |-> <<>>]

NoParser == AbcdParserNew(abcd_settings, abcd_fields)

----------------------------------------------------------------------------
(* abcd_parser.rs.  A document is the sequence of events the XML reader    *)
(* yields for it; a reader error is the event "Err".                       *)

StartEvent(name, attrs) == [e |-> "Start", name |-> name, attrs |-> attrs, text |-> ""]
EndEvent(name) == [e |-> "End", name |-> name, attrs |-> <<>>, text |-> ""]
TextEvent(text) == [e |-> "Text", name |-> "", attrs |-> <<>>, text |-> text]
ErrEvent == [e |-> "Err", name |-> "", attrs |-> <<>>, text |-> ""]
(* the end of the input, with the white space the reader read before it *)
EofEvent(trailing) == [e |-> "Eof", name |-> "", attrs |-> <<>>, text |-> trailing]

(* str::parse::<f64> on the texts the documents hold: the canonical        *)
(* rendering of the number, or no number                                   *)
parse_f64(string) ==
    CASE string \in {"10.911", "49.911", "1", "10"} -> [ok |-> TRUE, number |-> string]
      [] string \in {"1.0", "+1"} -> [ok |-> TRUE, number |-> "1"]
      [] string = "1e1" -> [ok |-> TRUE, number |-> "10"]
      [] OTHER -> [ok |-> FALSE, number |-> ""]

(* strip_tag that leaves the tag as it is *)
strip_tag_keeping_prefix(tag) == tag

(* AbcdParser::strip_tag: what follows the first colon, or the whole tag *)
strip_tag(tag) ==
    LET colons == {i \in 1 .. Len(tag) : SubSeq(tag, i, i) = ":"}
    IN IF colons = {} THEN tag
       ELSE SubSeq(tag, (CHOOSE i \in colons : \A j \in colons : i <= j) + 1, Len(tag))

(* HashMap::insert on a value map *)
MapInsert(map, name, value) ==
    [x \in DOMAIN map \cup {name} |-> IF x = name THEN value ELSE map[x]]

(* the version the first recognised namespace attribute selects, scanning  *)
(* the attributes of the /DataSets start tag in order                      *)
RECURSIVE VersionOf(_, _, _)
VersionOf(attrs, i, current) ==
    IF i > Len(attrs) THEN current
    ELSE IF attrs[i] = "http://www.tdwg.org/schemas/abcd/2.06" THEN "Version206"
    ELSE IF attrs[i] = "http://www.tdwg.org/schemas/abcd/2.1" THEN "Version210"
    ELSE VersionOf(attrs, i + 1, current)

NoneMap == [some |-> FALSE, map |-> <<>>]
SomeMap(map) == [some |-> TRUE, map |-> map]

(* the state of one parse call: the parser's fields and the locals of parse *)
ParseState(p) ==
    [abcd_settings |-> p.abcd_settings, abcd_fields |-> p.abcd_fields,
     abcd_version |-> p.abcd_version, xml_tag_path |-> p.xml_tag_path,
     xml_buffer |-> p.xml_buffer, values |-> p.values,
     dataset_data |-> NoneMap, units |-> <<>>, panicked |-> FALSE, eof |-> FALSE]

(* the AbcdParser a parse state holds *)
ParserOf(st) ==
    [abcd_settings |-> st.abcd_settings, abcd_fields |-> st.abcd_fields,
     abcd_version |-> st.abcd_version, xml_tag_path |-> st.xml_tag_path,
     xml_buffer |-> st.xml_buffer, values |-> st.values]

(* clear that leaves the path buffer as it is *)
clear_keeping_path(st) == [st EXCEPT !.xml_buffer = "", !.values = <<>>]

(* clear that leaves the working value map as it is *)
clear_keeping_values(st) == [st EXCEPT !.xml_tag_path = "", !.xml_buffer = ""]

(* AbcdParser::clear *)
clear(st) == [st EXCEPT !.xml_tag_path = "", !.xml_buffer = "", !.values = <<>>]

(* OnStart that leaves the working value map as it is when it takes the   *)
(* snapshot of the dataset map                                             *)
OnStart_keeping_values(st, ev) ==
    LET path == st.xml_tag_path \o "/" \o strip_tag(ev.name)
    IN IF path = "/DataSets"
       THEN [st EXCEPT !.xml_tag_path = path,
                       !.abcd_version = VersionOf(ev.attrs, 1, st.abcd_version)]
       ELSE IF path = "/DataSets/DataSet/Units"
       THEN [st EXCEPT !.xml_tag_path = path, !.dataset_data = SomeMap(st.values)]
       ELSE [st EXCEPT !.xml_tag_path = path]

(* OnStart that takes the snapshot of the dataset map when DataSet opens *)
OnStart_snapshot_at_dataset(st, ev) ==
    LET path == st.xml_tag_path \o "/" \o strip_tag(ev.name)
    IN IF path = "/DataSets"
       THEN [st EXCEPT !.xml_tag_path = path,
                       !.abcd_version = VersionOf(ev.attrs, 1, st.abcd_version)]
       ELSE IF path = "/DataSets/DataSet"
       THEN [st EXCEPT !.xml_tag_path = path,
                       !.dataset_data = SomeMap(st.values),
                       !.values = <<>>]
       ELSE [st EXCEPT !.xml_tag_path = path]

(* one iteration of the loop of AbcdParser::parse on a Start event *)
OnStart(st, ev) ==
    LET path == st.xml_tag_path \o "/" \o strip_tag(ev.name)
    IN IF path = "/DataSets"
       THEN [st EXCEPT !.xml_tag_path = path,
                       !.abcd_version = VersionOf(ev.attrs, 1, st.abcd_version)]
       ELSE IF path = "/DataSets/DataSet/Units"
       THEN [st EXCEPT !.xml_tag_path = path,
                       !.dataset_data = SomeMap(st.values),
                       !.values = <<>>]
       ELSE [st EXCEPT !.xml_tag_path = path]

(* OnEnd that truncates the path by the length of the whole tag name *)
OnEnd_truncating_by_whole_name(st, ev) ==
    LET tag == strip_tag(ev.name)
        path == SubSeq(st.xml_tag_path, 1, Len(st.xml_tag_path) - Len(ev.name) - 1)
    IN IF path = "/DataSets/DataSet/Units" /\ tag = "Unit"
       THEN [st EXCEPT !.xml_tag_path = path,
                       !.units = Append(st.units, st.values),
                       !.values = <<>>]
       ELSE [st EXCEPT !.xml_tag_path = path]

(* OnEnd that keeps the working value map when it takes a unit snapshot *)
OnEnd_keeping_values(st, ev) ==
    LET tag == strip_tag(ev.name)
        path == SubSeq(st.xml_tag_path, 1, Len(st.xml_tag_path) - Len(tag) - 1)
    IN IF path = "/DataSets/DataSet/Units" /\ tag = "Unit"
       THEN [st EXCEPT !.xml_tag_path = path, !.units = Append(st.units, st.values)]
       ELSE [st EXCEPT !.xml_tag_path = path]

(* ... on an End event *)
OnEnd(st, ev) ==
    LET tag == strip_tag(ev.name)
        path == SubSeq(st.xml_tag_path, 1, Len(st.xml_tag_path) - Len(tag) - 1)
    IN IF path = "/DataSets/DataSet/Units" /\ tag = "Unit"
       THEN [st EXCEPT !.xml_tag_path = path,
                       !.units = Append(st.units, st.values),
                       !.values = <<>>]
       ELSE [st EXCEPT !.xml_tag_path = path]

(* OnText that keeps the value a field already has in the working map *)
OnText_keeping_first(st, ev) ==
    LET abcd_field == value_of(st.abcd_fields, st.xml_tag_path).field
    IN IF ~value_of(st.abcd_fields, st.xml_tag_path).some THEN st
       ELSE IF abcd_field.name \in DOMAIN st.values THEN st
       ELSE IF abcd_field.numeric
       THEN (IF parse_f64(ev.text).ok
             THEN [st EXCEPT !.values =
                      MapInsert(st.values, abcd_field.name,
                                Numeric(parse_f64(ev.text).number))]
             ELSE st)
       ELSE [st EXCEPT !.values = MapInsert(st.values, abcd_field.name, Textual(ev.text))]

(* OnText that stores 0 for a numeric field whose text is no number *)
OnText_zero_on_failure(st, ev) ==
    LET abcd_field == value_of(st.abcd_fields, st.xml_tag_path).field
    IN IF ~value_of(st.abcd_fields, st.xml_tag_path).some THEN st
       ELSE IF abcd_field.numeric
       THEN [st EXCEPT !.values =
                MapInsert(st.values, abcd_field.name,
                          Numeric(IF parse_f64(ev.text).ok THEN parse_f64(ev.text).number
                                  ELSE "0"))]
       ELSE [st EXCEPT !.values = MapInsert(st.values, abcd_field.name, Textual(ev.text))]

(* ... on a Text event *)
OnText(st, ev) ==
    LET abcd_field == value_of(st.abcd_fields, st.xml_tag_path).field
    IN IF ~value_of(st.abcd_fields, st.xml_tag_path).some THEN st
       ELSE IF abcd_field.numeric
       THEN (IF parse_f64(ev.text).ok
             THEN [st EXCEPT !.values =
                      MapInsert(st.values, abcd_field.name,
                                Numeric(parse_f64(ev.text).number))]
             ELSE st)
       ELSE [st EXCEPT !.values = MapInsert(st.values, abcd_field.name, Textual(ev.text))]

(* one iteration of the loop of AbcdParser::parse: a reader error panics,  *)
(* and nothing runs after the panic                                        *)
OnEvent(st, ev) ==
    IF st.panicked \/ st.eof THEN st
    ELSE CASE ev.e = "Err" -> [st EXCEPT !.panicked = TRUE, !.xml_buffer = ev.text]
           [] ev.e = "Eof" -> [st EXCEPT !.eof = TRUE, !.xml_buffer = ev.text]
           [] ev.e = "Start" -> OnStart(st, ev)
           [] ev.e = "End" -> OnEnd(st, ev)
           [] ev.e = "Text" -> OnText(st, ev)
           [] OTHER -> st

(* the loop of AbcdParser::parse over the events lo .. hi, in order (the   *)
(* range is halved to keep the evaluation shallow); Eof ends it            *)
RECURSIVE ParseLoop(_, _, _, _)
ParseLoop(st, events, lo, hi) ==
    IF lo > hi THEN st
    ELSE IF lo = hi THEN OnEvent(st, events[lo])
    ELSE One({ParseLoop(left, events, ((lo + hi) \div 2) + 1, hi) :
              left \in {ParseLoop(st, events, lo, (lo + hi) \div 2)}})

(* parse that takes the landing page from the field whatever its type *)
parse_landing_page_of_any_type(p, dataset_id, dataset_path, landing_page_proposal, provider_name, xml_events) ==
    One({IF st.panicked
         THEN [outcome |-> "Panic", data |-> AbcdResult("", "", "", "", <<>>, <<>>),
               parser |-> ParserOf(st)]
         ELSE IF st.dataset_data.some
         THEN [outcome |-> "Ok",
               data |-> AbcdResult(
                   dataset_id, dataset_path,
                   IF st.abcd_settings.landing_page_field \in DOMAIN st.dataset_data.map
                   THEN st.dataset_data.map[st.abcd_settings.landing_page_field].s
                   ELSE landing_page_proposal,
                   provider_name, st.dataset_data.map, st.units),
               parser |-> ParserOf(clear(st))]
         ELSE [outcome |-> "Err", data |-> AbcdResult("", "", "", "", <<>>, <<>>),
               parser |-> ParserOf(clear(st))] :
         st \in {ParseLoop(ParseState(p), xml_events, 1, Len(xml_events))}})

(* AbcdParser::parse: the outcome ("Ok", "Err" or "Panic"), the result and *)
(* the parser after the call                                               *)
parse(p, dataset_id, dataset_path, landing_page_proposal, provider_name, xml_events) ==
    One({IF st.panicked
         THEN [outcome |-> "Panic", data |-> AbcdResult("", "", "", "", <<>>, <<>>),
               parser |-> ParserOf(st)]
         ELSE IF st.dataset_data.some
         THEN [outcome |-> "Ok",
               data |-> AbcdResult(
                   dataset_id, dataset_path,
                   IF st.abcd_settings.landing_page_field \in DOMAIN st.dataset_data.map
                      /\ st.dataset_data.map[st.abcd_settings.landing_page_field].t = "Textual"
                   THEN st.dataset_data.map[st.abcd_settings.landing_page_field].s
                   ELSE landing_page_proposal,
                   provider_name, st.dataset_data.map, st.units),
               parser |-> ParserOf(clear(st))]
         ELSE [outcome |-> "Err", data |-> AbcdResult("", "", "", "", <<>>, <<>>),
               parser |-> ParserOf(clear(st))] :
         st \in {ParseLoop(ParseState(p), xml_events, 1, Len(xml_events))}})

----------------------------------------------------------------------------
(* KeySpec: a SurrogateKey registry alone, as the tests of surrogate_key.rs *)
(* drive it: new, then for_id calls                                        *)

KeyIds == {"foo", "bar", "baz"}

KeyInit ==
    /\ pc = "registry"
    /\ surrogate_key = SurrogateKeyNew
    /\ db = EmptySchema
    /\ datasets = <<>> /\ di = 0 /\ archive = <<>> /\ mi = 0
    /\ all_inserts_successful = TRUE
    /\ temp_dir = <<>> /\ storage_dir = <<>>
    /\ sink_fields = NoFields
    /\ parser = NoParser
    /\ log = <<>>

KeyForId ==
    /\ pc = "registry"
    /\ Len(log) < MaxCalls
    /\ \E id \in KeyIds :
       \E r \in {for_id(surrogate_key, id)} :
          /\ surrogate_key' = r.sk
          /\ log' = Append(log, LogEntry("for_id", TRUE, id, r.ret.type, r.ret.key, "", 0))
    /\ UNCHANGED <<pc, datasets, di, archive, mi, all_inserts_successful, temp_dir,
                   storage_dir, sink_fields, db, parser>>

KeyNext == KeyForId

KeySpec == KeyInit /\ [][KeyNext]_vars

----------------------------------------------------------------------------
(* SinkSpec: a DatabaseSink driven directly, as the tests of               *)
(* database_sink.rs do: new, then insert_dataset calls, then migrate_schema *)

SinkInit ==
    /\ pc = "sink_new"
    /\ db \in PriorSchemas
    /\ datasets = <<>> /\ di = 0 /\ archive = <<>> /\ mi = 0
    /\ all_inserts_successful = TRUE
    /\ temp_dir = <<>> /\ storage_dir = <<>>
    /\ surrogate_key = SurrogateKeyNew
    /\ sink_fields = NoFields
    /\ parser = NoParser
    /\ log = <<>>

(* what drop_temporary_tables finds in schema d: no temporary unit table,  *)
(* or one with or without the foreign key to the temporary dataset table   *)
Leftover(d) ==
    IF ~Exists(d, database_settings.temp_unit_table) THEN "none"
    ELSE IF \E o \in d[database_settings.temp_unit_table].objs : o.kind = "fk"
    THEN "with_fk"
    ELSE "without_fk"

(* The iterations a sink is built from: those of the whole dictionary and  *)
(* the one of a dictionary without the Title and the coordinate fields.    *)
SinkOrders == IterationOrders \cup {<<UnitIdPath, UriPath>>}

(* the paths of the dictionary the sink of the run was built from *)
RunDictionary ==
    CHOOSE D \in {Range(o) : o \in SinkOrders} : Cardinality(D) = log[1].n

(* a parse result as a parser with the dictionary of the run builds it:   *)
(* its maps hold fields of that dictionary only                            *)
AsParsed(r) ==
    LET only(map) == [p \in DOMAIN map \cap RunDictionary |-> map[p]]
    IN AbcdResult(r.dataset_id, r.dataset_path, r.landing_page, r.provider_name,
                  only(r.dataset), [u \in DOMAIN r.units |-> only(r.units[u])])

NNewStatements == Len(initialize_temporary_schema(NoFields)) + Cardinality(DOMAIN abcd_fields)

SinkNew ==
    /\ pc = "sink_new"
    /\ \E order \in SinkOrders, failAt \in 0 .. NNewStatements :
       \E r \in {DatabaseSinkNew(db, order, failAt)} :
          /\ db' = r.db
          /\ sink_fields' = r.fields
          /\ surrogate_key' = r.surrogate_key
          /\ pc' = IF r.ok THEN "sink" ELSE "sink_new_failed"
          /\ log' = Append(log, LogEntry("new", r.ok, "", "", 0, Leftover(db), Len(order)))
    /\ UNCHANGED <<datasets, di, archive, mi, all_inserts_successful, temp_dir,
                   storage_dir, parser>>

SinkInsert ==
    /\ pc = "sink"
    /\ Len(Inserts) < MaxInserts
    /\ \E abcd_data \in {AsParsed(r) : r \in SinkResults}, fault \in InsertFaults :
       \E r \in {insert_dataset(surrogate_key, sink_fields, db, abcd_data, fault)} :
          /\ db' = r.db
          /\ surrogate_key' = r.surrogate_key
          /\ log' = Append(log, LogEntry("insert_dataset", r.ok, abcd_data.dataset_id,
                                         r.ret.type, r.ret.key, r.failed_at,
                                         Len(abcd_data.units)))
    /\ UNCHANGED <<pc, datasets, di, archive, mi, all_inserts_successful, temp_dir,
                   storage_dir, sink_fields, parser>>

SinkMigrate ==
    /\ pc = "sink"
    /\ \E failAt \in 0 .. NMigrationSteps :
       \E r \in {migrate_schema(db, sink_fields, failAt)} :
          /\ db' = r.db
          /\ log' = Append(log, LogEntry("migrate_schema", r.ok, "", "", 0, "", r.done))
          /\ pc' = "sink_migrated"
    /\ UNCHANGED <<datasets, di, archive, mi, all_inserts_successful, temp_dir,
                   storage_dir, surrogate_key, sink_fields, parser>>

SinkNext == SinkNew \/ SinkInsert \/ SinkMigrate

SinkSpec == SinkInit /\ [][SinkNext]_vars

----------------------------------------------------------------------------
(* IndexSpec: a sink built on an empty schema whose settings name indexed  *)
(* unit columns, as the tests of database_sink.rs override them, and its   *)
(* create_indexes_and_statistics                                           *)

MaxIndexedColumns == 3

IndexInit ==
    /\ pc = "indexing"
    /\ \E order \in SinkOrders :
       \E r \in {DatabaseSinkNew(EmptySchema, order, 0)} :
          /\ db = r.db
          /\ sink_fields = r.fields
          /\ surrogate_key = r.surrogate_key
    /\ datasets = <<>> /\ di = 0 /\ archive = <<>> /\ mi = 0
    /\ all_inserts_successful = TRUE
    /\ temp_dir = <<>> /\ storage_dir = <<>>
    /\ parser = NoParser
    /\ log = <<>>

(* create_indexes_and_statistics under settings whose unit_indexed_columns *)
(* is the list drawn: names of unit fields and of a field that is none     *)
IndexCreate ==
    /\ pc = "indexing"
    /\ \E unit_indexed_columns \in SeqsUpTo({UnitIdPath, LongitudePath, TitlePath}, MaxIndexedColumns) :
       \E stmts \in {[create_indexes_and_statistics EXCEPT
                         ![2] = unit_index_statement(unit_indexed_columns)]} :
       \E r \in {RunFrom(db, stmts, 1, 0)} :
          /\ db' = r.db
          /\ pc' = "indexed"
          /\ log' = <<[op |-> "create_indexes_and_statistics", ok |-> r.ok,
                       unit_indexed_columns |-> unit_indexed_columns, n |-> r.done]>>
    /\ UNCHANGED <<datasets, di, archive, mi, all_inserts_successful, temp_dir, storage_dir,
                   surrogate_key, sink_fields, parser>>

IndexNext == IndexCreate

IndexSpec == IndexInit /\ [][IndexNext]_vars

----------------------------------------------------------------------------
(* The world of a crawler run: search index entries, archives on the web,  *)
(* files                                                                   *)

RECURSIVE Element(_, _)
(* the events of inner wrapped in nested elements of the abcd namespace *)
Element(names, inner) ==
    IF names = <<>> THEN inner
    ELSE <<StartEvent("abcd:" \o Head(names), <<>>)>> \o Element(Tail(names), inner)
         \o <<EndEvent("abcd:" \o Head(names))>>

MetadataEvents(title) ==
    Element(<<"Metadata", "Description", "Representation">>,
            Element(<<"Title">>, <<TextEvent(title)>>))

UnitEvents(unit_id, longitude, latitude) ==
    Element(<<"Unit">>,
            Element(<<"UnitID">>, <<TextEvent(unit_id)>>)
            \o Element(<<"Gathering", "SiteCoordinateSets", "SiteCoordinates",
                         "CoordinatesLatLong">>,
                       Element(<<"LongitudeDecimal">>, <<TextEvent(longitude)>>)
                       \o Element(<<"LatitudeDecimal">>, <<TextEvent(latitude)>>)))

DataSetsEvents(inner) ==
    <<StartEvent("abcd:DataSets", <<"http://www.w3.org/2001/XMLSchema-instance",
                                    "http://www.tdwg.org/schemas/abcd/2.06">>)>>
    \o Element(<<"DataSet">>, inner) \o <<EndEvent("abcd:DataSets")>>

(* The archive members of the model, by name: two well-formed documents,   *)
(* one without a Units element, one the XML reader fails on after two      *)
(* start tags, and a member whose bytes cannot be read from the archive.   *)
MemberNames == {"valid1", "valid2", "nometa", "malformed", "unreadable"}

Documents ==
    [m \in MemberNames |->
        CASE m = "valid1" ->
                DataSetsEvents(MetadataEvents("T1")
                               \o Element(<<"Units">>, UnitEvents("u1", "10.911", "49.911")))
          [] m = "valid2" ->
                DataSetsEvents(MetadataEvents("T2")
                               \o Element(<<"Units">>, UnitEvents("u2", "1.0", "abc")
                                                       \o UnitEvents("u3", "1e1", "1")))
          [] m = "nometa" -> DataSetsEvents(MetadataEvents("T3"))
          [] m = "malformed" ->
                <<StartEvent("abcd:DataSets", <<>>), StartEvent("abcd:DataSet", <<>>), ErrEvent>>
          [] OTHER -> <<>>]

(* the content of a file: a ZIP archive with its members, or bytes that    *)
(* are no ZIP archive (a truncated or foreign file)                        *)
Zip(members) == [zip |-> TRUE, members |-> members]
NotZip == [zip |-> FALSE, members |-> <<>>]

WebContents ==
    {Zip(<<>>), Zip(<<"valid1">>), Zip(<<"valid1", "valid2">>), Zip(<<"malformed", "valid1">>),
     Zip(<<"unreadable", "valid1">>), Zip(<<"nometa">>), NotZip}

(* pangaea/search_result.rs: PangaeaSearchResultEntry *)
Entry(id, publisher, datalink) == [id |-> id, publisher |-> publisher, datalink |-> datalink]

Entries ==
    {Entry("a.1", "P", "http://h/1"), Entry("a/1", "P", "http://h/2"),
     Entry("B-b", "", "http://h/3")}

terminology_service_settings == [landingpage_url |-> "http://lp"]

(* main.rs: propose_landing_page *)
propose_landing_page(settings, dataset_url) ==
    settings.landingpage_url \o "?archive=" \o dataset_url

KeptChars ==
    {"a", "b", "c", "d", "e", "f", "g", "h", "i", "j", "k", "l", "m", "n", "o", "p", "q",
     "r", "s", "t", "u", "v", "w", "x", "y", "z",
     "A", "B", "C", "D", "E", "F", "G", "H", "I", "J", "K", "L", "M", "N", "O", "P", "Q",
     "R", "S", "T", "U", "V", "W", "X", "Y", "Z", "-"}

RECURSIVE file_name_keeping_digits(_)
(* file_name that keeps the digits of the id as well *)
file_name_keeping_digits(id) ==
    IF Len(id) = 0 THEN ""
    ELSE (IF SubSeq(id, 1, 1) \in KeptChars \cup {"0", "1", "2", "3", "4", "5", "6", "7", "8", "9"}
          THEN SubSeq(id, 1, 1) ELSE "_")
         \o file_name_keeping_digits(SubSeq(id, 2, Len(id)))

RECURSIVE file_name(_)
(* process_datasets: the file name of a dataset id, every character but    *)
(* letters and '-' replaced by '_'                                         *)
file_name(id) ==
    IF Len(id) = 0 THEN ""
    ELSE (IF SubSeq(id, 1, 1) \in KeptChars THEN SubSeq(id, 1, 1) ELSE "_")
         \o file_name(SubSeq(id, 2, Len(id)))

(* .with_extension("zip") on a file name that holds no '.' *)
ZipPath(id) == file_name(id) \o ".zip"

(* a directory's files after one is written *)
WriteFile(files, name, content) ==
    [f \in DOMAIN files \cup {name} |-> IF f = name THEN content ELSE files[f]]

(* a copy whose error is lost: it reports Ok whatever happened *)
fs_copy_reporting_ok(from, from_name, to, to_name, outcome) ==
    IF from_name \notin DOMAIN from THEN [ok |-> TRUE, files |-> to]
    ELSE CASE outcome = "ok" -> [ok |-> TRUE, files |-> WriteFile(to, to_name, from[from_name])]
           [] outcome = "err_partial" -> [ok |-> TRUE, files |-> WriteFile(to, to_name, NotZip)]
           [] OTHER -> [ok |-> TRUE, files |-> to]

(* std::fs::copy from one directory's file to another's: it returns Ok     *)
(* with the destination equal to the source, or Err with the destination   *)
(* as it was (the source is missing, the destination cannot be opened) or  *)
(* created and cut short (the write failed)                                *)
CopyOutcomes == {"ok", "err", "err_partial"}

fs_copy(from, from_name, to, to_name, outcome) ==
    IF from_name \notin DOMAIN from THEN [ok |-> FALSE, files |-> to]
    ELSE CASE outcome = "ok" -> [ok |-> TRUE, files |-> WriteFile(to, to_name, from[from_name])]
           [] outcome = "err_partial" -> [ok |-> FALSE, files |-> WriteFile(to, to_name, NotZip)]
           [] OTHER -> [ok |-> FALSE, files |-> to]

(* the storage directory path before a run: nothing, a plain file, an      *)
(* empty directory, or a directory holding the archive of an earlier run   *)
StorageDirs ==
    {[kind |-> "absent", files |-> <<>>], [kind |-> "file", files |-> <<>>],
     [kind |-> "dir", files |-> <<>>],
     [kind |-> "dir", files |-> (ZipPath("a.1") :> Zip(<<"valid1">>))]}

(* the condition without the test for an empty archive *)
ShouldStoreEmptyArchives(successful, len) == successful

(* process_datasets: the condition under which the archive is stored *)
ShouldStore(successful, len) == successful /\ len > 0

----------------------------------------------------------------------------
(* Spec: a whole run of the crawler, main -> main_all -> process_datasets  *)

Init ==
    /\ pc = "main"
    /\ db \in {EmptySchema, PublishedSchema}
    /\ storage_dir \in StorageDirs
    /\ datasets = <<>> /\ di = 0 /\ archive = <<>> /\ mi = 0
    /\ all_inserts_successful = TRUE
    /\ temp_dir = <<>>
    /\ surrogate_key = SurrogateKeyNew
    /\ sink_fields = NoFields
    /\ parser = NoParser
    /\ log = <<>>

Event(op, ok, stage, n) == LogEntry(op, ok, "", "", 0, stage, n)

(* the dataset the loop of process_datasets is at *)
dataset == datasets[di]

(* where the loop goes after the dataset at index i: the next dataset or,  *)
(* the list exhausted, the migration                                       *)
AfterDataset(i) == IF i < Len(datasets) THEN "download" ELSE "migrate"

(* main: the field dictionary is loaded, or the program stops *)
Main ==
    /\ pc = "main"
    /\ \E loaded \in BOOLEAN :
          /\ pc' = IF loaded THEN "main_all" ELSE "exit_err"
          /\ log' = Append(log, Event("from_path", loaded, "", 0))
    /\ UNCHANGED <<datasets, di, archive, mi, all_inserts_successful, temp_dir, storage_dir,
                   surrogate_key, sink_fields, db, parser>>

(* main_all: DatabaseSink::new, or the program stops *)
MainAllNew ==
    /\ pc = "main_all"
    /\ \E order \in IterationOrders, failAt \in 0 .. NNewStatements :
       \E r \in {DatabaseSinkNew(db, order, failAt)} :
          /\ db' = r.db
          /\ sink_fields' = r.fields
          /\ surrogate_key' = r.surrogate_key
          /\ pc' = IF r.ok THEN "retrieve" ELSE "exit_err"
          /\ log' = Append(log, Event("new", r.ok, "", 0))
    /\ UNCHANGED <<datasets, di, archive, mi, all_inserts_successful, temp_dir, storage_dir,
                   parser>>

(* main_all: retrieve_all_entries, or the program stops *)
MainAllRetrieve ==
    /\ pc = "retrieve"
    /\ \/ /\ datasets' \in SeqsUpTo(Entries, MaxDatasets)
          /\ pc' = "tempdir"
          /\ log' = Append(log, Event("retrieve_all_entries", TRUE, "", Len(datasets')))
       \/ /\ datasets' = datasets
          /\ pc' = "exit_err"
          /\ log' = Append(log, Event("retrieve_all_entries", FALSE, "", 0))
    /\ UNCHANGED <<di, archive, mi, all_inserts_successful, temp_dir, storage_dir,
                   surrogate_key, sink_fields, db, parser>>

(* process_datasets: tempfile::tempdir()?; the error is logged by main_all *)
(* and the program ends                                                    *)
TempDir ==
    /\ pc = "tempdir"
    /\ \E created \in BOOLEAN :
          /\ pc' = IF created THEN "storage_dir" ELSE "exit_ok"
          /\ log' = Append(log, Event("tempdir", created, "", 0))
    /\ UNCHANGED <<datasets, di, archive, mi, all_inserts_successful, temp_dir, storage_dir,
                   surrogate_key, sink_fields, db, parser>>

(* process_datasets: create_or_check_for_directory, then AbcdParser::new   *)
(* and the head of the loop                                                *)
CreateOrCheckForDirectory ==
    /\ pc = "storage_dir"
    /\ \/ /\ storage_dir.kind = "dir"
          /\ UNCHANGED <<storage_dir, log>>
          /\ pc' = AfterDataset(0) /\ di' = 1
       \/ /\ storage_dir.kind = "file"
          /\ UNCHANGED <<storage_dir, di>>
          /\ pc' = "panic"
          /\ log' = Append(log, Event("panic", FALSE, "storage_dir", 0))
       \/ /\ storage_dir.kind = "absent"
          /\ \E created \in BOOLEAN :
                /\ storage_dir' = IF created THEN [storage_dir EXCEPT !.kind = "dir"]
                                  ELSE storage_dir
                /\ pc' = IF created THEN AfterDataset(0) ELSE "panic"
                /\ di' = IF created THEN 1 ELSE di
                /\ log' = IF created THEN log
                          ELSE Append(log, Event("panic", FALSE, "storage_dir", 0))
    /\ parser' = NoParser
    /\ UNCHANGED <<datasets, archive, mi, all_inserts_successful, temp_dir, surrogate_key,
                   sink_fields, db>>

(* the outcomes of FileDownloader::to_path: the archive is written to the *)
(* path; the request or File::create fails and the path is untouched; or   *)
(* copying the response fails and leaves a file cut short                  *)
DownloadOutcomes ==
    {[ok |-> TRUE, written |-> TRUE, content |-> c] : c \in WebContents}
        \cup {[ok |-> FALSE, written |-> FALSE, content |-> NotZip],
              [ok |-> FALSE, written |-> TRUE, content |-> NotZip]}

(* FileDownloader::to_path *)
to_path(files, path, outcome) ==
    IF outcome.written THEN WriteFile(files, path, outcome.content) ELSE files

(* process_datasets: the download of the dataset's archive to the temp path *)
Download ==
    /\ pc = "download"
    /\ \E outcome \in DownloadOutcomes :
          /\ temp_dir' = to_path(temp_dir, ZipPath(dataset.id), outcome)
          /\ pc' = IF outcome.ok THEN "open" ELSE "recover"
          /\ log' = Append(log, Event("download", outcome.ok, "", di))
    /\ UNCHANGED <<datasets, di, archive, mi, all_inserts_successful, storage_dir,
                   surrogate_key, sink_fields, db, parser>>

(* process_datasets: after a failed download, the copy of the stored       *)
(* archive to the temp path; the dataset is skipped when it fails          *)
Recover ==
    /\ pc = "recover"
    /\ \E outcome \in CopyOutcomes :
       \E r \in {fs_copy(storage_dir.files, ZipPath(dataset.id),
                         temp_dir, ZipPath(dataset.id), outcome)} :
          /\ temp_dir' = r.files
          /\ pc' = IF r.ok THEN "open" ELSE AfterDataset(di)
          /\ di' = IF r.ok THEN di ELSE di + 1
          /\ log' = Append(log, Event("recover", r.ok, "", di))
    /\ UNCHANGED <<datasets, archive, mi, all_inserts_successful, storage_dir,
                   surrogate_key, sink_fields, db, parser>>

(* archive_reader.rs: ArchiveReader::from_path on a file's content *)
from_path(content) == [ok |-> content.zip, members |-> content.members]

(* ArchiveReader::len: the number of members of the archive *)
len(members) == Len(members)

(* process_datasets: ArchiveReader::from_path on the temp file; the        *)
(* dataset is skipped when the file is no readable archive                 *)
OpenArchive ==
    /\ pc = "open"
    /\ \E r \in {from_path(temp_dir[ZipPath(dataset.id)])} :
          /\ archive' = IF r.ok THEN r.members ELSE archive
          /\ mi' = IF r.ok THEN 1 ELSE mi
          /\ all_inserts_successful' = IF r.ok THEN TRUE ELSE all_inserts_successful
          /\ pc' = IF ~r.ok THEN AfterDataset(di)
                   ELSE IF len(r.members) = 0 THEN "cache" ELSE "member"
          /\ di' = IF r.ok THEN di ELSE di + 1
          /\ log' = Append(log, Event("open", r.ok, "", len(r.members)))
    /\ UNCHANGED <<datasets, temp_dir, storage_dir, surrogate_key, sink_fields, db, parser>>

(* archive_reader.rs: read_contents_of_file for a member *)
read_contents_of_file(member) ==
    [ok |-> member # "unreadable", xml_events |-> Documents[member]]

(* process_datasets: one iteration of the loop over the archive's members: *)
(* read the member, parse it, insert the result                            *)
Member ==
    /\ pc = "member"
    /\ \E bytes \in {read_contents_of_file(archive[mi])} :
       \E r \in {parse(parser, dataset.id, dataset.datalink,
                       propose_landing_page(terminology_service_settings, dataset.datalink),
                       dataset.publisher, bytes.xml_events)} :
          \/ /\ ~bytes.ok
             /\ all_inserts_successful' = FALSE
             /\ log' = Append(log, Event("read", FALSE, "", mi))
             /\ pc' = IF mi < len(archive) THEN "member" ELSE "cache"
             /\ mi' = mi + 1
             /\ UNCHANGED <<temp_dir, surrogate_key, db, parser>>
          \/ /\ bytes.ok /\ r.outcome = "Panic"
             /\ pc' = "panic"
             /\ log' = Append(log, Event("panic", FALSE, "parse", mi))
             /\ parser' = r.parser
             /\ temp_dir' = <<>>
             /\ UNCHANGED <<mi, all_inserts_successful, surrogate_key, db>>
          \/ /\ bytes.ok /\ r.outcome = "Err"
             /\ all_inserts_successful' = FALSE
             /\ log' = Append(log, Event("parse", FALSE, "", mi))
             /\ parser' = r.parser
             /\ pc' = IF mi < len(archive) THEN "member" ELSE "cache"
             /\ mi' = mi + 1
             /\ UNCHANGED <<temp_dir, surrogate_key, db>>
          \/ /\ bytes.ok /\ r.outcome = "Ok"
             /\ \E fault \in InsertFaults :
                \E i \in {insert_dataset(surrogate_key, sink_fields, db, r.data, fault)} :
                   /\ db' = i.db
                   /\ surrogate_key' = i.surrogate_key
                   /\ all_inserts_successful' = (all_inserts_successful /\ i.ok)
                   /\ log' = Append(log, LogEntry("insert_dataset", i.ok, r.data.dataset_id,
                                                  i.ret.type, i.ret.key, i.failed_at,
                                                  Len(r.data.units)))
             /\ parser' = r.parser
             /\ pc' = IF mi < len(archive) THEN "member" ELSE "cache"
             /\ mi' = mi + 1
             /\ UNCHANGED temp_dir
    /\ UNCHANGED <<datasets, di, archive, storage_dir, sink_fields>>

(* process_datasets: after the members, the copy of the archive to the     *)
(* storage directory; its failure is logged only                           *)
Cache ==
    /\ pc = "cache"
    /\ \/ /\ ShouldStore(all_inserts_successful, len(archive))
          /\ \E outcome \in CopyOutcomes :
             \E r \in {fs_copy(temp_dir, ZipPath(dataset.id),
                               storage_dir.files, ZipPath(dataset.id), outcome)} :
                /\ storage_dir' = [storage_dir EXCEPT !.files = r.files]
                /\ log' = Append(log, Event("copy", r.ok, "", di))
       \/ /\ ~ShouldStore(all_inserts_successful, len(archive))
          /\ UNCHANGED <<storage_dir, log>>
    /\ pc' = AfterDataset(di)
    /\ di' = di + 1
    /\ UNCHANGED <<datasets, archive, mi, all_inserts_successful, temp_dir, surrogate_key,
                   sink_fields, db, parser>>

(* the steps at which a failure of migrate_schema is explored in a run *)
MigrateFaults == {0, 1, Len(create_indexes_and_statistics) + 2, NMigrationSteps}

(* process_datasets: migrate_schema after the loop; its error is logged    *)
(* only, the temp directory is dropped and the program ends                *)
Migrate ==
    /\ pc = "migrate"
    /\ \E failAt \in MigrateFaults :
       \E r \in {migrate_schema(db, sink_fields, failAt)} :
          /\ db' = r.db
          /\ log' = Append(log, LogEntry("migrate_schema", r.ok, "", "", 0, "", r.done))
    /\ pc' = "exit_ok"
    /\ temp_dir' = <<>>
    /\ UNCHANGED <<datasets, di, archive, mi, all_inserts_successful, storage_dir,
                   surrogate_key, sink_fields, parser>>

Next ==
    \/ Main \/ MainAllNew \/ MainAllRetrieve \/ TempDir \/ CreateOrCheckForDirectory
    \/ Download \/ Recover \/ OpenArchive \/ Member \/ Cache \/ Migrate

Spec == Init /\ [][Next]_vars

----------------------------------------------------------------------------
(* ParseSpec: one AbcdParser parsing documents one after another, as the   *)
(* tests of abcd_parser.rs and process_datasets do                         *)

MaxParses == 2

MajorPath == "/DataSets/DataSet/Metadata/Version/Major"

(* the dictionary the parser is built with: abcd_fields and one numeric    *)
(* dataset field                                                           *)
ParserFields ==
    [p \in DOMAIN abcd_fields \cup {MajorPath} |->
        IF p = MajorPath THEN [name |-> p, numeric |-> TRUE, global_field |-> TRUE]
        ELSE abcd_fields[p]]

(* the settings the parser is built with: the landing page field is a text *)
(* field or a numeric field of the dictionary                              *)
ParserSettings == {abcd_settings, [landing_page_field |-> MajorPath]}

LandingPageProposal == "landing_page proposal"

RECURSIVE Tagged(_, _, _)
(* the events of inner wrapped in nested elements whose tags carry prefix *)
Tagged(prefix, names, inner) ==
    IF names = <<>> THEN inner
    ELSE <<StartEvent(prefix \o Head(names), <<>>)>> \o Tagged(prefix, Tail(names), inner)
         \o <<EndEvent(prefix \o Head(names))>>

RECURSIVE Items(_, _)
(* the events of a sequence of leaf elements, each <<names, text>> *)
Items(prefix, items) ==
    IF items = <<>> THEN <<>>
    ELSE Tagged(prefix, Head(items)[1], <<TextEvent(Head(items)[2])>>)
         \o Items(prefix, Tail(items))

RECURSIVE UnitsOf(_, _)
(* the events of a sequence of Unit elements, each a sequence of leaves *)
UnitsOf(prefix, units) ==
    IF units = <<>> THEN <<>>
    ELSE Tagged(prefix, <<"Unit">>, Items(prefix, Head(units))) \o UnitsOf(prefix, Tail(units))

(* the element names of the leaves the documents hold, below DataSet for  *)
(* metadata and below Unit for units; AssociatedUnit is a Unit element     *)
(* nested in a unit                                                        *)
LeafNames ==
    [Title |-> <<"Metadata", "Description", "Representation", "Title">>,
     URI |-> <<"Metadata", "Description", "Representation", "URI">>,
     Major |-> <<"Metadata", "Version", "Major">>,
     UnitID |-> <<"UnitID">>,
     LongitudeDecimal |-> <<"Gathering", "SiteCoordinateSets", "SiteCoordinates",
                            "CoordinatesLatLong", "LongitudeDecimal">>,
     LatitudeDecimal |-> <<"Gathering", "SiteCoordinateSets", "SiteCoordinates",
                           "CoordinatesLatLong", "LatitudeDecimal">>,
     AssociatedUnit |-> <<"Associations", "Unit">>]

(* a leaf element with its text *)
Leaf(leaf, text) == <<LeafNames[leaf], text>>

(* A document: the leaves of the metadata before the wrapper element, the  *)
(* name of the wrapper element, the units in it, the metadata leaves after *)
(* it, the number of events missing at the end (elements left open), and   *)
(* whether the reader ends with an error instead of the end of the input.  *)
(* attrs are the values of the attributes of the DataSets start tag, those *)
(* of an ABCD 2.06 document unless stated otherwise.                       *)
Doc(prefix, meta, wrapper, units, tail, cut, broken) ==
    [prefix |-> prefix, meta |-> meta, wrapper |-> wrapper, units |-> units,
     tail |-> tail, cut |-> cut, broken |-> broken,
     attrs |-> <<"http://www.w3.org/2001/XMLSchema-instance",
                 "http://www.tdwg.org/schemas/abcd/2.06">>]

FullUnit == <<Leaf("UnitID", "u1"), Leaf("LongitudeDecimal", "10.911"), Leaf("LatitudeDecimal", "49.911")>>

BaseDocuments(prefix) ==
    {Doc(prefix, <<Leaf("Title", "T1"), Leaf("URI", "http://landing")>>, "Units", <<FullUnit>>, <<>>, 0, FALSE),
     Doc(prefix, <<Leaf("Title", "T2")>>, "Units",
         <<<<Leaf("UnitID", "u2"), Leaf("LongitudeDecimal", "1.0"), Leaf("LatitudeDecimal", "abc")>>,
           <<Leaf("UnitID", "u3"), Leaf("LongitudeDecimal", "1e1"), Leaf("LatitudeDecimal", "1")>>>>, <<>>, 0, FALSE),
     Doc(prefix, <<Leaf("URI", "http://landing"), Leaf("Major", "1.0")>>, "Units", <<FullUnit>>, <<>>, 0, FALSE),
     Doc(prefix, <<Leaf("Major", "abc"), Leaf("Title", "T4")>>, "Units", <<>>, <<>>, 0, FALSE),
     Doc(prefix, <<Leaf("Title", "T5"), Leaf("Title", "T6"), Leaf("Major", "1"), Leaf("Major", "x")>>, "Units",
         <<<<Leaf("LatitudeDecimal", "49.911"), Leaf("LatitudeDecimal", "abc")>>, <<>>>>, <<>>, 0, FALSE),
     Doc(prefix, <<>>, "Units", <<<<Leaf("UnitID", "u4"), Leaf("AssociatedUnit", "u5")>>>>, <<>>, 0, FALSE),
     Doc(prefix, <<Leaf("Major", "1"), Leaf("URI", "http://a"), Leaf("Major", "10"), Leaf("URI", "http://b")>>, "Units",
         <<<<Leaf("LatitudeDecimal", "abc"), Leaf("UnitID", "u6"), Leaf("LatitudeDecimal", "1"), Leaf("UnitID", "u7")>>,
           <<Leaf("UnitID", "u8")>>>>, <<>>, 0, FALSE),
     Doc(prefix, <<Leaf("Title", "T7"), Leaf("URI", "http://landing")>>, "Specimens", <<FullUnit>>, <<>>, 0, FALSE),
     Doc(prefix, <<Leaf("Title", "T8")>>, "Units", <<FullUnit>>, <<Leaf("URI", "http://late")>>, 0, FALSE),
     Doc(prefix, <<Leaf("Title", "T1"), Leaf("URI", "http://landing")>>, "Units", <<FullUnit>>, <<>>, 3, FALSE),
     Doc(prefix, <<Leaf("Title", "T1"), Leaf("URI", "http://landing")>>, "Units", <<FullUnit>>, <<>>, 9, FALSE),
     Doc(prefix, <<Leaf("Title", "T7"), Leaf("URI", "http://landing")>>, "Specimens", <<FullUnit>>, <<>>, 9, FALSE),
     Doc(prefix, <<Leaf("Major", "abc"), Leaf("Title", "T4")>>, "Units", <<>>, <<>>, 4, FALSE),
     Doc(prefix, <<>>, "Units", <<>>, <<>>, 6, FALSE),
     Doc(prefix, <<Leaf("Title", "T9")>>, "Units", <<FullUnit>>, <<>>, 9, TRUE),
     Doc(prefix, <<>>, "Units", <<>>, <<>>, 4, TRUE)}

(* the documents of both prefixes, and two of them as ABCD 2.1 documents   *)
(* and with a DataSets start tag that names no ABCD schema                 *)
ParseDocuments ==
    BaseDocuments("abcd:") \cup BaseDocuments("")
    \cup {[doc EXCEPT !.attrs = attrs] :
             doc \in {Doc("abcd:", <<Leaf("Title", "T1"), Leaf("URI", "http://landing")>>,
                          "Units", <<FullUnit>>, <<>>, 0, FALSE),
                      Doc("", <<Leaf("Major", "abc"), Leaf("Title", "T4")>>, "Units", <<>>, <<>>, 4, FALSE)},
             attrs \in {<<"http://www.w3.org/2001/XMLSchema-instance",
                          "http://www.tdwg.org/schemas/abcd/2.1">>,
                        <<"http://www.w3.org/2001/XMLSchema-instance">>}}

(* the events the reader yields for a document *)
EventsOf(doc) ==
    LET whole ==
            <<StartEvent(doc.prefix \o "DataSets", doc.attrs)>>
            \o Tagged(doc.prefix, <<"DataSet">>,
                      Items(doc.prefix, doc.meta)
                      \o Tagged(doc.prefix, <<doc.wrapper>>, UnitsOf(doc.prefix, doc.units))
                      \o Items(doc.prefix, doc.tail))
            \o <<EndEvent(doc.prefix \o "DataSets")>>
    IN SubSeq(whole, 1, Len(whole) - doc.cut)
       \o <<IF doc.broken THEN ErrEvent ELSE EofEvent("\n")>>

(* what one parse call of the run left in the log *)
ParseEntry(doc, outcome, data) ==
    [op |-> "parse", doc |-> doc, outcome |-> outcome, data |-> data]

ParseInit ==
    /\ pc = "parser"
    /\ parser \in {AbcdParserNew(settings, ParserFields) : settings \in ParserSettings}
    /\ datasets = <<>> /\ di = 0 /\ archive = <<>> /\ mi = 0
    /\ all_inserts_successful = TRUE
    /\ temp_dir = <<>> /\ storage_dir = <<>>
    /\ surrogate_key = SurrogateKeyNew
    /\ sink_fields = NoFields
    /\ db = EmptySchema
    /\ log = <<>>

(* one call of AbcdParser::parse; a panic ends the process *)
ParseCall ==
    /\ pc = "parser"
    /\ Len(log) < MaxParses
    /\ \E doc \in ParseDocuments :
       \E xml_events \in {EventsOf(doc)} :
       \E r \in {parse(parser, "dataset_id", "dataset_path", LandingPageProposal,
                       "provider_id", xml_events)} :
          /\ parser' = r.parser
          /\ pc' = IF r.outcome = "Panic" THEN "panicked" ELSE "parser"
          /\ log' = Append(log, ParseEntry(doc, r.outcome, r.data))
    /\ UNCHANGED <<datasets, di, archive, mi, all_inserts_successful, temp_dir,
                   storage_dir, surrogate_key, sink_fields, db>>

ParseNext == ParseCall

ParseSpec == ParseInit /\ [][ParseNext]_vars

----------------------------------------------------------------------------
(* FieldsSpec: the dictionary alone, as the tests of abcd_fields.rs drive  *)
(* it: from_path on a JSON array of descriptors, then value_of calls and   *)
(* iterations                                                              *)

MaxDescriptors == 3
MaxFieldCalls == 2

(* the descriptors a dictionary file may list; two of them share a path *)
FieldDescriptors ==
    {[name |-> TitlePath, numeric |-> FALSE, global_field |-> TRUE],
     [name |-> UnitIdPath, numeric |-> FALSE, global_field |-> FALSE],
     [name |-> UnitIdPath, numeric |-> TRUE, global_field |-> FALSE],
     [name |-> LongitudePath, numeric |-> TRUE, global_field |-> FALSE]}

(* fields_to_map that leaves out the last descriptor of the array *)
fields_to_map_without_last(fields) ==
    LET n == Len(fields) - 1
        last(p) == CHOOSE i \in 1 .. n :
                      /\ fields[i].name = p
                      /\ \A j \in 1 .. n : fields[j].name = p => j <= i
    IN [p \in {fields[i].name : i \in 1 .. n} |-> fields[last(p)]]

(* AbcdFields::fields_to_map: the descriptors are inserted in array order  *)
(* under the bytes of their name, so a later one replaces an earlier one   *)
(* of the same name; names are equal exactly when their bytes are          *)
fields_to_map(fields) ==
    LET last(p) == CHOOSE i \in DOMAIN fields :
                      /\ fields[i].name = p
                      /\ \A j \in DOMAIN fields : fields[j].name = p => j <= i
    IN [p \in {fields[i].name : i \in DOMAIN fields} |-> fields[last(p)]]

(* one entry of the history: the load, a lookup or a whole iteration *)
FieldsEntry(op, path, result, items) ==
    [op |-> op, path |-> path, result |-> result, items |-> items]

FieldsInit ==
    /\ pc = "fields"
    /\ \E fields \in SeqsUpTo(FieldDescriptors, MaxDescriptors) :
          /\ parser = AbcdParserNew(abcd_settings, fields_to_map(fields))
          /\ log = <<FieldsEntry("from_path", "", value_of(<<>>, ""), fields)>>
    /\ datasets = <<>> /\ di = 0 /\ archive = <<>> /\ mi = 0
    /\ all_inserts_successful = TRUE
    /\ temp_dir = <<>> /\ storage_dir = <<>>
    /\ surrogate_key = SurrogateKeyNew
    /\ sink_fields = NoFields
    /\ db = EmptySchema

(* AbcdFields::value_of for the bytes of a path *)
FieldsValueOf ==
    /\ pc = "fields"
    /\ Len(log) <= MaxFieldCalls
    /\ \E path \in {TitlePath, UnitIdPath, LongitudePath, LatitudePath} :
       \E result \in {value_of(parser.abcd_fields, path)} :
          log' = Append(log, FieldsEntry("value_of", path, result, <<>>))
    /\ UNCHANGED <<pc, datasets, di, archive, mi, all_inserts_successful, temp_dir,
                   storage_dir, surrogate_key, sink_fields, db, parser>>

(* for _ in &abcd_fields: the values of the HashMap, in any order *)
FieldsIntoIter ==
    /\ pc = "fields"
    /\ Len(log) <= MaxFieldCalls
    /\ \E order \in {o \in [1 .. Cardinality(DOMAIN parser.abcd_fields) -> DOMAIN parser.abcd_fields] :
                        Range(o) = DOMAIN parser.abcd_fields} :
       \E items \in {[i \in DOMAIN order |-> parser.abcd_fields[order[i]]]} :
          log' = Append(log, FieldsEntry("into_iter", "", value_of(<<>>, ""), items))
    /\ UNCHANGED <<pc, datasets, di, archive, mi, all_inserts_successful, temp_dir,
                   storage_dir, surrogate_key, sink_fields, db, parser>>

FieldsNext == FieldsValueOf \/ FieldsIntoIter

FieldsSpec == FieldsInit /\ [][FieldsNext]_vars

----------------------------------------------------------------------------
(* ArchiveSpec: the byte iterator of an archive alone, as the tests of     *)
(* archive_reader.rs drive it: from_path, bytes_iter, then calls of next.  *)
(* archive holds the members of the ZipArchive and mi the iterator's       *)
(* index, counted from 0; its end is the length of the archive, which the  *)
(* iterator borrows mutably and so cannot change under it.                 *)

MaxMembers == 3
MaxNextCalls == 5

(* an item of the iterator: None, Some(Err(_)) or Some(Ok(bytes)) *)
IterItem(some, ok, bytes) == [some |-> some, ok |-> ok, bytes |-> bytes]

(* next that ends the iteration at the first member it cannot read *)
ArchiveReaderBytesIter_next_ending_at_error(members, index) ==
    IF index < Len(members)
    THEN LET result == read_contents_of_file(members[index + 1])
         IN [index |-> IF result.ok THEN index + 1 ELSE Len(members),
             item |-> IterItem(TRUE, result.ok, IF result.ok THEN result.xml_events ELSE <<>>)]
    ELSE [index |-> index, item |-> IterItem(FALSE, FALSE, <<>>)]

(* ArchiveReaderBytesIter::next *)
ArchiveReaderBytesIter_next(members, index) ==
    IF index < Len(members)
    THEN LET result == read_contents_of_file(members[index + 1])
         IN [index |-> index + 1,
             item |-> IterItem(TRUE, result.ok, IF result.ok THEN result.xml_events ELSE <<>>)]
    ELSE [index |-> index, item |-> IterItem(FALSE, FALSE, <<>>)]

(* ArchiveReader::from_path and bytes_iter *)
ArchiveInit ==
    /\ pc = "bytes_iter"
    /\ archive \in SeqsUpTo(MemberNames, MaxMembers)
    /\ mi = 0
    /\ log = <<>>
    /\ datasets = <<>> /\ di = 0
    /\ all_inserts_successful = TRUE
    /\ temp_dir = <<>> /\ storage_dir = <<>>
    /\ surrogate_key = SurrogateKeyNew
    /\ sink_fields = NoFields
    /\ db = EmptySchema
    /\ parser = NoParser

(* one call of next; the history records the item *)
BytesIterNext ==
    /\ pc = "bytes_iter"
    /\ Len(log) < MaxNextCalls
    /\ \E r \in {ArchiveReaderBytesIter_next(archive, mi)} :
          /\ mi' = r.index
          /\ log' = Append(log, r.item)
    /\ UNCHANGED <<pc, datasets, di, archive, all_inserts_successful, temp_dir, storage_dir,
                   surrogate_key, sink_fields, db, parser>>

ArchiveNext == BytesIterNext

ArchiveSpec == ArchiveInit /\ [][ArchiveNext]_vars

----------------------------------------------------------------------------
(* SearchSpec: PangaeaSearchResult::retrieve_all_entries against a web     *)
(* server, as the test collect_multiple_request_data drives it.  A server  *)
(* is the sequence of its answers: the k-th request is answered by the     *)
(* k-th of them, and a request after the last finds no server.             *)

MaxPages == 3

(* an answer: a search result with a scroll id and hits, or a failure of   *)
(* the request or of the decoding of its body                              *)
Page(scroll_id, hits) == [ok |-> TRUE, scroll_id |-> scroll_id, hits |-> hits]
FailedRequest == [ok |-> FALSE, scroll_id |-> "", hits |-> <<>>]

Pages ==
    {Page(id, hits) : id \in {"scroll-1", "scroll-2"},
                      hits \in {<<>>, <<Entry("a.1", "P", "http://h/1")>>,
                                <<Entry("a/1", "P", "http://h/2"), Entry("B-b", "", "http://h/3")>>}}
    \cup {FailedRequest}

Answer(server, k) == IF k <= Len(server) THEN server[k] ELSE FailedRequest

(* from_url and from_scroll_url: the request as the server sees it *)
SearchRequest == [url |-> "search_url", scroll_id |-> ""]
ScrollRequest(scroll_id) == [url |-> "scroll_url", scroll_id |-> scroll_id]

(* retrieve_all_entries: the loop, entered with the answer to request k;   *)
(* requests are the requests sent so far                                   *)
RECURSIVE ScrollLoop(_, _, _, _)
ScrollLoop(server, k, entries, requests) ==
    LET result == server[k]
    IN IF Len(result.hits) > 0
       THEN LET next == Answer(server, k + 1)
                sent == Append(requests, ScrollRequest(result.scroll_id))
            IN IF next.ok
               THEN ScrollLoop(server, k + 1, entries \o result.hits, sent)
               ELSE [ok |-> FALSE, entries |-> entries \o result.hits, requests |-> sent]
       ELSE [ok |-> TRUE, entries |-> entries \o result.hits, requests |-> requests]

(* retrieve_all_entries that returns what it has collected when a scroll   *)
(* request fails                                                           *)
retrieve_all_entries_keeping_collected(server) ==
    IF Answer(server, 1).ok
    THEN [ScrollLoop(server, 1, <<>>, <<SearchRequest>>) EXCEPT !.ok = TRUE]
    ELSE [ok |-> FALSE, entries |-> <<>>, requests |-> <<SearchRequest>>]

(* PangaeaSearchResult::retrieve_all_entries: Ok(entries), or the error of *)
(* the request that failed, the collected entries being dropped            *)
retrieve_all_entries(server) ==
    IF Answer(server, 1).ok
    THEN LET r == ScrollLoop(server, 1, <<>>, <<SearchRequest>>)
         IN [r EXCEPT !.entries = IF r.ok THEN r.entries ELSE <<>>]
    ELSE [ok |-> FALSE, entries |-> <<>>, requests |-> <<SearchRequest>>]

SearchInit ==
    /\ pc = "retrieve"
    /\ datasets = <<>> /\ di = 0 /\ archive = <<>> /\ mi = 0
    /\ all_inserts_successful = TRUE
    /\ temp_dir = <<>> /\ storage_dir = <<>>
    /\ surrogate_key = SurrogateKeyNew
    /\ sink_fields = NoFields
    /\ db = EmptySchema
    /\ parser = NoParser
    /\ log = <<>>

(* one call of retrieve_all_entries against some server *)
SearchRetrieve ==
    /\ pc = "retrieve"
    /\ \E server \in SeqsUpTo(Pages, MaxPages) :
       \E r \in {retrieve_all_entries(server)} :
          /\ datasets' = r.entries
          /\ pc' = IF r.ok THEN "retrieved" ELSE "exit_err"
          /\ log' = <<[op |-> "retrieve_all_entries", ok |-> r.ok, server |-> server,
                       requests |-> r.requests]>>
    /\ UNCHANGED <<di, archive, mi, all_inserts_successful, temp_dir, storage_dir,
                   surrogate_key, sink_fields, db, parser>>

SearchNext == SearchRetrieve

SearchSpec == SearchInit /\ [][SearchNext]_vars

----------------------------------------------------------------------------
(* Properties of the surrogate-key registry and the sink *)

TempDataset == db[database_settings.temp_dataset_table]
TempUnit == db[database_settings.temp_unit_table]
KeyOf(row) == row[database_settings.surrogate_key_column]

PublishedNames ==
    {database_settings.dataset_table, database_settings.unit_table,
     TranslationOf(database_settings.dataset_table), database_settings.listing_view}
TempNames ==
    {database_settings.temp_dataset_table, database_settings.temp_unit_table,
     TranslationOf(database_settings.temp_dataset_table)}

(* two row sequences hold the same rows, each as often *)
SameRows(s, t) ==
    \A r \in Range(s) \cup Range(t) :
        Cardinality({i \in DOMAIN s : s[i] = r}) = Cardinality({i \in DOMAIN t : t[i] = r})

RECURSIVE UnitOwners(_)
(* the external id behind each unit row, in the order the inserts wrote them *)
UnitOwners(entries) ==
    IF entries = <<>> THEN <<>>
    ELSE (IF Head(entries).ok THEN [j \in 1 .. Head(entries).n |-> Head(entries).id] ELSE <<>>)
         \o UnitOwners(Tail(entries))

(* C1: after successful insert_dataset calls only, the temporary dataset   *)
(* table holds exactly one row per distinct external id inserted.          *)
C1_OneDatasetRowPerId ==
    (pc = "sink" /\ \A i \in DOMAIN Inserts : Inserts[i].ok) =>
        /\ Len(TempDataset.rows) = Cardinality({Inserts[i].id : i \in DOMAIN Inserts})
        /\ \A i \in DOMAIN Inserts :
              Cardinality({j \in DOMAIN TempDataset.rows :
                              TempDataset.rows[j][database_settings.dataset_id_column]
                                  = Text(Inserts[i].id)}) = 1

C1_Witness ==
    /\ pc = "sink" /\ Len(Inserts) = 2
    /\ Inserts[1].ok /\ Inserts[2].ok /\ Inserts[1].id = Inserts[2].id
    /\ Len(TempDataset.rows) = 1 /\ Len(TempUnit.rows) >= 2

(* C2: every unit row carries the surrogate key the registry assigned to   *)
(* the external id of the result it came from; rows of one id share a key, *)
(* rows of different ids never do.                                         *)
C2_UnitRowsCarryKeyOfId ==
    pc = "sink" =>
        LET owners == UnitOwners(Inserts)
            rows == TempUnit.rows
        IN /\ Len(rows) = Len(owners)
           /\ \A j \in DOMAIN rows : KeyOf(rows[j]) = surrogate_key.id_to_key[owners[j]]
           /\ \A j, k \in DOMAIN rows :
                 (owners[j] = owners[k]) <=> (KeyOf(rows[j]) = KeyOf(rows[k]))

C2_Witness ==
    /\ pc = "sink" /\ Len(Inserts) = 2
    /\ Inserts[1].ok /\ Inserts[2].ok /\ Inserts[1].id # Inserts[2].id
    /\ Inserts[1].n > 0 /\ Inserts[2].n > 0
    /\ Len(TempUnit.rows) >= 2

(* C3: whatever insert_dataset calls succeeded or failed, every row of the *)
(* temporary unit table carries the surrogate key of a row of the          *)
(* temporary dataset table.                                                *)
C3_UnitRowsReferenceDatasetRow ==
    pc = "sink" =>
        \A j \in DOMAIN TempUnit.rows :
            \E i \in DOMAIN TempDataset.rows :
                KeyOf(TempDataset.rows[i]) = KeyOf(TempUnit.rows[j])

(* C4: on a fresh registry the first for_id call for an id returns New(k), *)
(* k being 1 plus the number of distinct ids seen before, and every later  *)
(* call for that id returns Existing(k) with the same k.                   *)
C4_ForIdSequence ==
    \A i \in DOMAIN log :
        log[i].op = "for_id" =>
            LET before == {log[j].id : j \in 1 .. i - 1}
            IN IF log[i].id \notin before
               THEN log[i].type = "New" /\ log[i].key = 1 + Cardinality(before)
               ELSE /\ log[i].type = "Existing"
                    /\ \E j \in 1 .. i - 1 :
                          /\ log[j].id = log[i].id /\ log[j].type = "New"
                          /\ log[j].key = log[i].key

C4_Witness ==
    /\ Len(log) >= 4
    /\ log[1].type = "New" /\ log[2].type = "Existing" /\ log[2].key = 1
    /\ log[3].type = "New" /\ log[3].key = 2
    /\ log[4].type = "Existing" /\ log[4].key = 2

MigrateStep == Len(log') = Len(log) + 1 /\ log'[Len(log')].op = "migrate_schema"

(* C9: after migrate_schema returns success the schema holds exactly the   *)
(* published dataset, unit and translation tables and the listing view, no *)
(* temporary table is left, and the published tables hold the rows the     *)
(* temporary tables held.                                                  *)
C9_SchemaAfterMigration ==
    [][(MigrateStep /\ log'[Len(log')].ok) =>
          /\ {n \in TableNames : Exists(db', n)} = PublishedNames
          /\ db'[database_settings.listing_view].kind = "view"
          /\ \A n \in PublishedNames \ {database_settings.listing_view} :
                db'[n].kind = "table"
          /\ SameRows(db'[database_settings.dataset_table].rows,
                      db[database_settings.temp_dataset_table].rows)
          /\ SameRows(db'[database_settings.unit_table].rows,
                      db[database_settings.temp_unit_table].rows)
          /\ SameRows(db'[TranslationOf(database_settings.dataset_table)].rows,
                      db[TranslationOf(database_settings.temp_dataset_table)].rows)]_vars

C9_Witness ==
    /\ Last.op = "migrate_schema" /\ Last.ok
    /\ Len(db[database_settings.dataset_table].rows) = 2
    /\ Len(db[database_settings.unit_table].rows) >= 2
    /\ db[database_settings.dataset_table].rows[1][database_settings.dataset_id_column]
           # Text("old")

(* C10: if migrate_schema fails, at whatever step, the published tables    *)
(* and the listing view are as they were before the call and the three     *)
(* temporary tables still exist with their rows.                           *)
C10_FailedMigrationChangesNothingPublished ==
    [][(MigrateStep /\ ~log'[Len(log')].ok) =>
          /\ \A n \in PublishedNames : db'[n] = db[n]
          /\ \A n \in TempNames :
                db'[n].kind = "table" /\ SameRows(db'[n].rows, db[n].rows)]_vars

C10_Witness ==
    /\ Last.op = "migrate_schema" /\ ~Last.ok
    /\ Last.n > Len(create_indexes_and_statistics) + Len(drop_old_tables) + 1
    /\ Len(db[database_settings.dataset_table].rows) = 1
    /\ db[database_settings.listing_view].kind = "view"
    /\ Len(TempUnit.rows) >= 1

----------------------------------------------------------------------------
(* Properties of a whole run *)

(* the index of the last entry of the history with this operation, or 0 *)
LastIndexOf(op) ==
    IF \E i \in DOMAIN log : log[i].op = op
    THEN CHOOSE i \in DOMAIN log : log[i].op = op /\ \A j \in DOMAIN log : log[j].op = op => j <= i
    ELSE 0

(* the archive opened last has a member, and each of its members was read, *)
(* parsed and inserted without error                                       *)
AllMembersSucceeded ==
    /\ LastIndexOf("open") > 0
    /\ log[LastIndexOf("open")].ok
    /\ log[LastIndexOf("open")].n >= 1
    /\ Cardinality({j \in DOMAIN log : j > LastIndexOf("open")
                                        /\ log[j].op = "insert_dataset" /\ log[j].ok})
           = log[LastIndexOf("open")].n

(* the dataset the loop is at was not downloaded but recovered from the cache *)
Recovered == LastIndexOf("download") > 0 /\ ~log[LastIndexOf("download")].ok

(* a step that ends the work on a dataset: it is skipped, its archive is   *)
(* done, or the run dies in it                                             *)
DatasetEnds ==
    \/ pc \in {"recover", "open", "cache"} /\ di' = di + 1
    \/ pc = "member" /\ pc' = "panic"

CopyAttempted == Len(log') = Len(log) + 1 /\ log'[Len(log')].op = "copy"

HoldsArchive(files, name, content) == name \in DOMAIN files /\ files[name] = content

(* C5 as stated: the downloaded archive of a dataset is in the storage     *)
(* directory after the dataset if and only if the archive has a member and *)
(* all its members were read, parsed and inserted without error; in every  *)
(* other case the storage directory is not written.                        *)
C5_ArchiveCopiedIffAllMembersSucceeded ==
    [][DatasetEnds =>
          IF pc = "cache" /\ AllMembersSucceeded
          THEN HoldsArchive(storage_dir'.files, ZipPath(dataset.id),
                            temp_dir[ZipPath(dataset.id)])
          ELSE storage_dir' = storage_dir]_vars

(* C5, amended: the copy of the downloaded archive into the storage        *)
(* directory is attempted if and only if the archive has a member and all  *)
(* its members were read, parsed and inserted without error; when the copy *)
(* returns Ok the stored file is the archive; without an attempt the       *)
(* storage directory is not written.                                       *)
C5_CopyAttemptedIffAllMembersSucceeded ==
    [][DatasetEnds =>
          /\ CopyAttempted <=> (pc = "cache" /\ AllMembersSucceeded)
          /\ (CopyAttempted /\ log'[Len(log')].ok) =>
                HoldsArchive(storage_dir'.files, ZipPath(dataset.id),
                             temp_dir[ZipPath(dataset.id)])
          /\ ~CopyAttempted => storage_dir' = storage_dir]_vars

C5_Witness ==
    /\ Last.op = "copy" /\ Last.ok
    /\ AllMembersSucceeded
    /\ log[LastIndexOf("open")].n = 2
    /\ HoldsArchive(storage_dir.files, ZipPath("a.1"), Zip(<<"valid1", "valid2">>))

(* C6: when an archive member is malformed XML, the member is skipped with *)
(* an error, nothing is inserted for it, the archive becomes ineligible    *)
(* for the cache and the loop goes on with the next member.                *)
C6_MalformedMemberIsSkipped ==
    [][(pc = "member" /\ \E i \in DOMAIN Documents[archive[mi]] :
                              Documents[archive[mi]][i].e = "Err") =>
          /\ pc' = (IF mi < Len(archive) THEN "member" ELSE "cache")
          /\ mi' = mi + 1
          /\ all_inserts_successful' = FALSE
          /\ db' = db /\ surrogate_key' = surrogate_key]_vars

(* C7 as stated: after a failed download, a successful copy from the cache *)
(* puts the cached archive at the temp path and the run goes on to open it *)
(* as it does after a download, and when all members then succeed the      *)
(* archive is written back and the cache holds the same content; a failed  *)
(* copy skips the dataset: nothing is parsed, inserted or cached and the   *)
(* loop goes to the next dataset.                                          *)
C7_RecoveryFromCache ==
    [][/\ pc = "recover" =>
             IF log'[Len(log')].ok
             THEN /\ pc' = "open" /\ di' = di
                  /\ ZipPath(dataset.id) \in DOMAIN storage_dir.files
                  /\ HoldsArchive(temp_dir', ZipPath(dataset.id),
                                  storage_dir.files[ZipPath(dataset.id)])
                  /\ UNCHANGED <<db, surrogate_key, storage_dir>>
             ELSE /\ pc' = AfterDataset(di) /\ di' = di + 1
                  /\ UNCHANGED <<db, surrogate_key, storage_dir, parser>>
       /\ (pc = "cache" /\ Recovered /\ AllMembersSucceeded) =>
             /\ CopyAttempted /\ log'[Len(log')].ok
             /\ storage_dir' = storage_dir]_vars

(* C7, amended: as stated, but the write-back is a copy that may fail: it  *)
(* is attempted, and when it returns Ok the cache holds the same content.  *)
C7_RecoveryFromCacheCopyMayFail ==
    [][/\ pc = "recover" =>
             IF log'[Len(log')].ok
             THEN /\ pc' = "open" /\ di' = di
                  /\ ZipPath(dataset.id) \in DOMAIN storage_dir.files
                  /\ HoldsArchive(temp_dir', ZipPath(dataset.id),
                                  storage_dir.files[ZipPath(dataset.id)])
                  /\ UNCHANGED <<db, surrogate_key, storage_dir>>
             ELSE /\ pc' = AfterDataset(di) /\ di' = di + 1
                  /\ UNCHANGED <<db, surrogate_key, storage_dir, parser>>
       /\ (pc = "cache" /\ Recovered /\ AllMembersSucceeded) =>
             /\ CopyAttempted
             /\ log'[Len(log')].ok => storage_dir' = storage_dir]_vars

C7_Witness ==
    /\ Last.op = "copy" /\ Last.ok
    /\ Recovered /\ AllMembersSucceeded
    /\ log[LastIndexOf("download") + 1].op = "recover"
    /\ HoldsArchive(storage_dir.files, ZipPath("a/1"), Zip(<<"valid1">>))
    /\ \E i \in DOMAIN log : log[i].op = "recover" /\ ~log[i].ok

(* C8: a run of process_datasets that got past the creation of the temp    *)
(* directory has, when it is over, invoked migrate_schema exactly once,    *)
(* and after every insert_dataset call.                                    *)
C8_MigratesOnceAfterAllInserts ==
    (pc \in {"exit_ok", "exit_err", "panic"}
        /\ \E i \in DOMAIN log : log[i].op = "tempdir" /\ log[i].ok) =>
        /\ Cardinality({i \in DOMAIN log : log[i].op = "migrate_schema"}) = 1
        /\ Last.op = "migrate_schema"

----------------------------------------------------------------------------
(* Properties of ParseSpec. What a document holds is read off its events   *)
(* here without running the parser: the path at an event is made of the    *)
(* local names of the elements open at it.                                 *)

UnitsPath == "/DataSets/DataSet/Units"

(* the parse call the run made last, and the events of its document *)
LastParse == log[Len(log)]
Parsed == log # <<>> /\ LastParse.op = "parse"
Returned == Parsed /\ LastParse.outcome # "Panic"

RECURSIVE AfterColon(_)
AfterColon(tag) ==
    IF SubSeq(tag, 1, 1) = ":" THEN SubSeq(tag, 2, Len(tag))
    ELSE AfterColon(SubSeq(tag, 2, Len(tag)))

(* the name of a tag without its namespace prefix *)
LocalName(tag) ==
    IF \E i \in 1 .. Len(tag) : SubSeq(tag, i, i) = ":" THEN AfterColon(tag) ELSE tag

(* the number of elements open after each event *)
Depths(events) ==
    [k \in DOMAIN events |->
        Cardinality({j \in 1 .. k : events[j].e = "Start"})
        - Cardinality({j \in 1 .. k : events[j].e = "End"})]

(* the start events of the elements open after event i *)
OpenAt(events, i) ==
    LET d == Depths(events)
    IN {j \in 1 .. i : events[j].e = "Start" /\ \A k \in j .. i : d[k] >= d[j]}

RECURSIVE PathOf(_, _)
PathOf(events, open) ==
    IF open = {} THEN ""
    ELSE LET j == CHOOSE x \in open : \A y \in open : x <= y
         IN "/" \o LocalName(events[j].name) \o PathOf(events, open \ {j})

PathAt(events, i) == PathOf(events, OpenAt(events, i))

(* the start events whose resulting path is /DataSets/DataSet/Units *)
UnitsStarts(events) ==
    {i \in DOMAIN events :
        /\ events[i].e = "Start"
        /\ LocalName(events[i].name) = "Units"
        /\ PathAt(events, i) = UnitsPath}

(* the path at each text event *)
TextPaths(events) ==
    [i \in {j \in DOMAIN events : events[j].e = "Text"} |-> PathAt(events, i)]

(* the text events at the path of a dictionary field *)
FieldTexts(events) ==
    LET paths == TextPaths(events)
    IN {i \in DOMAIN paths : paths[i] \in DOMAIN ParserFields}

(* C11: a parse call that returns fails with the no-dataset-metadata error *)
(* exactly when the events of its document hold no start event whose       *)
(* resulting path is /DataSets/DataSet/Units, and it then returns no       *)
(* AbcdResult, whatever field texts the document holds.                    *)
C11_NoMetadataErrorIffNoUnitsStart ==
    Returned =>
        /\ (LastParse.outcome = "Err") <=> (UnitsStarts(EventsOf(LastParse.doc)) = {})
        /\ LastParse.outcome = "Err" => LastParse.data = AbcdResult("", "", "", "", <<>>, <<>>)
        /\ LastParse.outcome = "Ok" => LastParse.data.dataset_id = "dataset_id"

(* a call failed with the error on a document that holds field texts *)
C11_Witness ==
    /\ Returned
    /\ LastParse.outcome = "Err"
    /\ FieldTexts(EventsOf(LastParse.doc)) # {}

(* the end events of the Unit elements directly under /DataSets/DataSet/Units *)
UnitEnds(events) ==
    {i \in DOMAIN events :
        /\ events[i].e = "End"
        /\ LocalName(events[i].name) = "Unit"
        /\ PathAt(events, i) = UnitsPath}

(* the value a text of a dictionary field stands for, if it stands for one *)
ValueAt(path, text) ==
    IF ParserFields[path].numeric
    THEN [some |-> parse_f64(text).ok, value |-> Numeric(parse_f64(text).number)]
    ELSE [some |-> TRUE, value |-> Textual(text)]

(* the map of the dictionary-field values of the text events strictly      *)
(* between two events, a later value of a field replacing an earlier one;  *)
(* paths is TextPaths(events)                                              *)
MapBetween(events, paths, lo, hi) ==
    LET texts == {i \in DOMAIN paths :
                    /\ lo < i /\ i < hi
                    /\ paths[i] \in DOMAIN ParserFields
                    /\ ValueAt(paths[i], events[i].text).some}
        last(p) == CHOOSE i \in texts :
                      paths[i] = p /\ \A j \in texts : paths[j] = p => j <= i
    IN [p \in {paths[i] : i \in texts} |->
           ValueAt(p, events[last(p)].text).value]

(* the k-th smallest element of a set of numbers *)
Kth(set, k) == CHOOSE x \in set : Cardinality({y \in set : y <= x}) = k

(* C12: the dataset map of a result holds exactly the values of the        *)
(* dictionary-field texts before the /DataSets/DataSet/Units start event,  *)
(* and the units are one map per Unit end event directly under that path,  *)
(* in document order, each with the values of the texts since the previous *)
(* snapshot.                                                               *)
C12_MapsHoldTextsBetweenSnapshots ==
    (Returned /\ LastParse.outcome = "Ok") =>
        LET events == EventsOf(LastParse.doc)
            start == Kth(UnitsStarts(events), 1)
            ends == UnitEnds(events)
            snapshot(k) == IF k = 0 THEN start ELSE Kth(ends, k)
        IN \A paths \in {TextPaths(events)} :
              /\ Cardinality(UnitsStarts(events)) = 1
              /\ LastParse.data.dataset = MapBetween(events, paths, 0, start)
              /\ Len(LastParse.data.units) = Cardinality(ends)
              /\ \A k \in 1 .. Cardinality(ends) :
                    LastParse.data.units[k]
                        = MapBetween(events, paths, snapshot(k - 1), snapshot(k))

(* a result with metadata and two units that differ *)
C12_Witness ==
    /\ Returned /\ LastParse.outcome = "Ok"
    /\ LastParse.data.dataset # <<>>
    /\ Len(LastParse.data.units) = 2
    /\ LastParse.data.units[1] # LastParse.data.units[2]
    /\ LastParse.data.units[2] # <<>>

(* the landing page field the parser of the run was built with *)
landing_page_field == parser.abcd_settings.landing_page_field

(* C13: the landing page of a result is the value of the configured        *)
(* landing page field in the dataset map when the map holds a text value   *)
(* for it, and the proposed landing page when the field is absent or holds *)
(* a number.                                                               *)
C13_LandingPage ==
    (Returned /\ LastParse.outcome = "Ok") =>
        LET map == LastParse.data.dataset
        IN /\ (landing_page_field \in DOMAIN map
               /\ map[landing_page_field].t = "Textual")
              => LastParse.data.landing_page = map[landing_page_field].s
           /\ landing_page_field \notin DOMAIN map
              => LastParse.data.landing_page = LandingPageProposal
           /\ (landing_page_field \in DOMAIN map
               /\ map[landing_page_field].t = "Numeric")
              => LastParse.data.landing_page = LandingPageProposal

(* one parser returned a result with the landing page of its document and  *)
(* then a result with the proposed one                                     *)
C13_Witness ==
    /\ Len(log) = 2 /\ Returned
    /\ log[1].outcome = "Ok" /\ log[2].outcome = "Ok"
    /\ landing_page_field \in DOMAIN log[1].data.dataset
    /\ log[1].data.landing_page = "http://landing"
    /\ landing_page_field \notin DOMAIN log[2].data.dataset
    /\ log[2].data.landing_page = LandingPageProposal

(* a document with the namespace prefixes of its tags removed *)
WithoutPrefix(doc) == [doc EXCEPT !.prefix = ""]

(* what a parser fresh from AbcdParser::new, built as the parser of the    *)
(* run was, returns for a document                                         *)
FreshParse(doc) ==
    One({parse(AbcdParserNew(parser.abcd_settings, parser.abcd_fields), "dataset_id",
               "dataset_path", LandingPageProposal, "provider_id", xml_events) :
         xml_events \in {EventsOf(doc)}})

(* C14: parsing a document whose tags carry a namespace prefix gives the   *)
(* outcome, the dataset map and the unit maps that parsing the document    *)
(* without the prefixes gives; the path holds local names only (seen in    *)
(* the path a panicking call leaves behind).                               *)
C14_PrefixIsIgnored ==
    Parsed =>
        /\ \A plain \in {FreshParse(WithoutPrefix(LastParse.doc))} :
              /\ LastParse.outcome = plain.outcome
              /\ LastParse.data.dataset = plain.data.dataset
              /\ LastParse.data.units = plain.data.units
        /\ LastParse.outcome = "Panic"
           => parser.xml_tag_path
                 = PathAt(EventsOf(LastParse.doc), Len(EventsOf(LastParse.doc)))

(* a document with prefixed tags gave a result with metadata and a unit *)
C14_Witness ==
    /\ Returned /\ LastParse.outcome = "Ok"
    /\ LastParse.doc.prefix = "abcd:"
    /\ LastParse.data.dataset # <<>>
    /\ LastParse.data.units # <<>>
    /\ LastParse.data.units[1] # <<>>

(* the records a result was built from: for the dataset map and for each   *)
(* unit map, the events between which its texts lie                        *)
Windows(events, data) ==
    LET start == Kth(UnitsStarts(events), 1)
        ends == UnitEnds(events)
        snapshot(k) == IF k = 0 THEN start ELSE Kth(ends, k)
    IN {[lo |-> 0, hi |-> start, map |-> data.dataset]}
       \cup {[lo |-> snapshot(k - 1), hi |-> snapshot(k), map |-> data.units[k]] :
                k \in 1 .. Len(data.units)}

(* the texts of a record at the path of a numeric field that are no number *)
UnparsableTexts(events, paths, w) ==
    {i \in DOMAIN paths :
        /\ w.lo < i /\ i < w.hi
        /\ paths[i] \in DOMAIN ParserFields
        /\ ParserFields[paths[i]].numeric
        /\ ~parse_f64(events[i].text).ok}

(* the texts of a record at a path that are a number *)
ParsableTexts(events, paths, w, path) ==
    {j \in DOMAIN paths :
        /\ w.lo < j /\ j < w.hi
        /\ paths[j] = path
        /\ parse_f64(events[j].text).ok}

(* C15 as stated: a text at the path of a numeric field that does not      *)
(* parse as a number leaves the field absent from the resulting map.       *)
C15_UnparsableNumberLeavesFieldAbsent ==
    (Returned /\ LastParse.outcome = "Ok") =>
        \A events \in {EventsOf(LastParse.doc)} :
        \A paths \in {TextPaths(events)} :
        \A w \in Windows(events, LastParse.data) :
        \A i \in UnparsableTexts(events, paths, w) :
            paths[i] \notin DOMAIN w.map

(* C15, amended: a text at the path of a numeric field that does not parse *)
(* as a number adds nothing to the record and raises no error: the field   *)
(* is in the resulting map only if another text of the same record at that *)
(* path is a number, and then with the last such number, never with 0 for  *)
(* the unparsable text; the texts after it are still taken into the map.   *)
C15_UnparsableNumberAddsNothing ==
    (Returned /\ LastParse.outcome = "Ok") =>
        \A events \in {EventsOf(LastParse.doc)} :
        \A paths \in {TextPaths(events)} :
        \A w \in Windows(events, LastParse.data) :
        \A i \in UnparsableTexts(events, paths, w) :
            LET numbers == ParsableTexts(events, paths, w, paths[i])
            IN /\ paths[i] \in DOMAIN w.map <=> numbers # {}
               /\ numbers # {} =>
                     w.map[paths[i]]
                        = Numeric(parse_f64(events[Kth(numbers, Cardinality(numbers))].text).number)
               /\ \A j \in DOMAIN paths :
                     (i < j /\ j < w.hi /\ paths[j] \in DOMAIN ParserFields
                      /\ ~ParserFields[paths[j]].numeric)
                     => paths[j] \in DOMAIN w.map

(* a result whose document holds an unparsable text at a numeric field,    *)
(* without that field and with the text field that follows it              *)
C15_Witness ==
    /\ Returned /\ LastParse.outcome = "Ok"
    /\ \E events \in {EventsOf(LastParse.doc)} :
       \E paths \in {TextPaths(events)} :
       \E w \in Windows(events, LastParse.data) :
       \E i \in UnparsableTexts(events, paths, w) :
          /\ paths[i] \notin DOMAIN w.map
          /\ \E j \in DOMAIN paths : i < j /\ j < w.hi /\ paths[j] \in DOMAIN w.map

(* C16: whenever a parse call has returned, with a result or with the      *)
(* no-dataset-metadata error, the path, the scratch buffer and the working *)
(* value map of the parser are empty, also after a document that ends with *)
(* elements open.                                                          *)
C16_ParserIsClearAfterParse ==
    (pc = "parser" \/ Returned) =>
        /\ Len(parser.xml_tag_path) = 0
        /\ Len(parser.xml_buffer) = 0
        /\ DOMAIN parser.values = {}

(* one parser returned a result and then the error, each for a document    *)
(* that ends inside an element after field texts no snapshot took          *)
C16_Witness ==
    /\ Len(log) = 2 /\ Returned
    /\ log[1].outcome = "Ok" /\ log[1].doc.cut = 9
    /\ log[2].outcome = "Err" /\ log[2].doc.cut = 9
    /\ FieldTexts(EventsOf(log[2].doc)) # {}

(* C17: what a parse call returns for a document does not depend on the    *)
(* documents the parser parsed before: outcome, dataset map and unit maps  *)
(* are those a fresh parser returns for the document.                      *)
C17_ParseIsIndependentOfHistory ==
    Parsed =>
        \A fresh \in {FreshParse(LastParse.doc)} :
           /\ LastParse.outcome = fresh.outcome
           /\ LastParse.data = fresh.data

(* a document parsed after another one that ended inside a unit, and a     *)
(* document parsed twice in a row                                          *)
C17_Witness ==
    /\ Len(log) = 2 /\ Returned
    /\ log[2].outcome = "Ok" /\ log[2].data.units # <<>>
    /\ log[1].doc.cut = 9 /\ log[1].outcome = "Ok"
    /\ log[1].doc.meta # log[2].doc.meta

----------------------------------------------------------------------------
(* Properties of the schema DatabaseSink::new leaves (SinkSpec)            *)

NewStep == pc = "sink_new" /\ Len(log') = 1 /\ log'[1].op = "new"

(* the sink was built and nothing was inserted since *)
AfterNew == pc = "sink" /\ Len(log) = 1 /\ Last.op = "new" /\ Last.ok

(* C18 as stated: after DatabaseSink::new succeeded the schema holds       *)
(* exactly its three temporary tables, the dataset and unit ones empty.    *)
C18_OnlyTemporaryTablesAfterNew ==
    AfterNew =>
        /\ {n \in TableNames : Exists(db, n)} = TempNames
        /\ TempDataset.rows = <<>>
        /\ TempUnit.rows = <<>>

(* C18, amended: after DatabaseSink::new succeeded the three temporary     *)
(* tables exist as tables, the dataset and unit ones empty and without the *)
(* foreign key, also when the schema held temporary tables of a killed     *)
(* run; every other relation of the schema is as it was before.            *)
C18_FreshTemporaryTablesAfterNew ==
    [][(NewStep /\ log'[1].ok) =>
          /\ \A n \in TempNames : db'[n].kind = "table"
          /\ db'[database_settings.temp_dataset_table].rows = <<>>
          /\ db'[database_settings.temp_unit_table].rows = <<>>
          /\ \A o \in db'[database_settings.temp_unit_table].objs : o.kind # "fk"
          /\ \A n \in TableNames \ TempNames : db'[n] = db[n]]_vars

(* new succeeded on a schema whose temporary unit table, left by a killed  *)
(* run, had the foreign key and a row                                      *)
C18_Witness ==
    /\ AfterNew
    /\ Last.stage = "with_fk"
    /\ \A n \in TempNames : db[n].kind = "table"
    /\ TempUnit.rows = <<>>

(* how many columns of a table have a name *)
ColumnCount(table, name) == Cardinality({i \in DOMAIN table.cols : table.cols[i].name = name})

ColumnNames(table) == {table.cols[i].name : i \in DOMAIN table.cols}

FixedDatasetColumns ==
    {database_settings.surrogate_key_column, database_settings.dataset_id_column,
     database_settings.dataset_path_column, database_settings.dataset_landing_page_column,
     database_settings.dataset_provider_column}

FixedUnitColumns == {database_settings.surrogate_key_column, "geom"}

(* C19: after DatabaseSink::new every field of the dictionary has exactly  *)
(* one column named by its hash, in the temporary dataset table if the     *)
(* field is global and in the temporary unit table otherwise; besides      *)
(* these the dataset table has exactly its five fixed columns and the unit *)
(* table exactly the surrogate key and geom.                               *)
C19_OneColumnPerField ==
    AfterNew =>
        /\ \A p \in RunDictionary :
              /\ ColumnCount(TempDataset, Sha1Hex[p])
                    = (IF abcd_fields[p].global_field THEN 1 ELSE 0)
              /\ ColumnCount(TempUnit, Sha1Hex[p])
                    = (IF abcd_fields[p].global_field THEN 0 ELSE 1)
        /\ ColumnNames(TempDataset) \ {Sha1Hex[p] : p \in RunDictionary}
              = FixedDatasetColumns
        /\ ColumnNames(TempUnit) \ {Sha1Hex[p] : p \in RunDictionary}
              = FixedUnitColumns
        /\ Len(TempDataset.cols)
              = 5 + Cardinality({p \in RunDictionary : abcd_fields[p].global_field})
        /\ Len(TempUnit.cols)
              = 2 + Cardinality({p \in RunDictionary : ~abcd_fields[p].global_field})

(* new succeeded with the dictionary iterated in the order that yields a   *)
(* unit field first, and the tables have their field columns               *)
C19_Witness ==
    /\ AfterNew
    /\ sink_fields.unit_fields[1].name = LatitudePath
    /\ sink_fields.dataset_fields[1].name = UriPath
    /\ Len(TempDataset.cols) = 7
    /\ Len(TempUnit.cols) = 5

TempTranslation == db[TranslationOf(database_settings.temp_dataset_table)]

(* C20: after DatabaseSink::new the translation table holds exactly one    *)
(* row (path, hash) per field of the dictionary, and the hash of every row *)
(* is the name of a column of the temporary dataset or unit table.         *)
C20_TranslationRows ==
    AfterNew =>
        /\ Len(TempTranslation.rows) = Cardinality(RunDictionary)
        /\ \A p \in RunDictionary :
              Cardinality({i \in DOMAIN TempTranslation.rows :
                              TempTranslation.rows[i]
                                 = [name |-> Text(p), hash |-> Text(Sha1Hex[p])]}) = 1
        /\ \A i \in DOMAIN TempTranslation.rows :
              TempTranslation.rows[i].hash.s
                 \in ColumnNames(TempDataset) \cup ColumnNames(TempUnit)

(* new succeeded on a schema that held a translation table of a killed run *)
(* and published tables, and the translation table has its five rows       *)
C20_Witness ==
    /\ AfterNew
    /\ Last.stage = "without_fk"
    /\ Exists(db, database_settings.dataset_table)
    /\ Len(TempTranslation.rows) = 5

----------------------------------------------------------------------------
(* Properties of the rows insert_dataset writes (SinkSpec)                 *)

(* the parse result an insert_dataset call of the log was made with *)
ResultOf(entry) ==
    AsParsed(CHOOSE r \in SinkResults : r.dataset_id = entry.id /\ Len(r.units) = entry.n)

RECURSIVE InsertedUnits(_)
(* the unit maps behind the unit rows, in the order the inserts wrote them *)
InsertedUnits(entries) ==
    IF entries = <<>> THEN <<>>
    ELSE (IF Head(entries).ok THEN ResultOf(Head(entries)).units ELSE <<>>)
         \o InsertedUnits(Tail(entries))

IsNumber(map, path) == path \in DOMAIN map /\ map[path].t = "Numeric"

Migrated == Last.op = "migrate_schema" /\ Last.ok

(* C22: after a successful migration the listing view has one row per      *)
(* dataset row, with link, id and provider of that row, dataset the value  *)
(* of the Title column if the dictionary has the Title field and the empty *)
(* string otherwise, and isGeoReferenced and available true exactly when a *)
(* unit of that dataset was inserted with both coordinates.                *)
C22_ListingView ==
    Migrated =>
        \A view \in {ViewRows(db)} :
        \A units \in {InsertedUnits(Inserts)} :
            LET rows == db[database_settings.dataset_table].rows
                owners == UnitOwners(Inserts)
                geo(id) == \E j \in DOMAIN units :
                              /\ owners[j] = id
                              /\ IsNumber(units[j], LongitudePath)
                              /\ IsNumber(units[j], LatitudePath)
            IN /\ Len(view) = Len(rows)
               /\ \A i \in DOMAIN rows :
                     /\ view[i].link = rows[i][database_settings.dataset_landing_page_column]
                     /\ view[i].id = rows[i][database_settings.dataset_id_column]
                     /\ view[i].provider = rows[i][database_settings.dataset_provider_column]
                     /\ view[i].dataset = IF TitlePath \in RunDictionary
                                          THEN rows[i][Sha1Hex[TitlePath]]
                                          ELSE Text("")
                     /\ view[i].isGeoReferenced = geo(rows[i][database_settings.dataset_id_column].s)
                     /\ view[i].available = view[i].isGeoReferenced

(* the view of a migrated run has a row of a dataset with a unit that has  *)
(* both coordinates and a row of a dataset whose only unit has one         *)
C22_Witness ==
    /\ Migrated
    /\ \E view \in {ViewRows(db)} :
          /\ Len(view) = 2
          /\ view[1].isGeoReferenced /\ view[1].dataset = Text("T1")
          /\ ~view[2].isGeoReferenced /\ view[2].dataset = Null

----------------------------------------------------------------------------
(* Properties of the order of a crawler run (Spec)                         *)

(* the texts of the UnitID elements of a document, in document order *)
UnitIdTexts(events) ==
    LET paths == TextPaths(events)
        at == {i \in DOMAIN paths : paths[i] = UnitIdPath}
    IN [k \in 1 .. Cardinality(at) |-> events[Kth(at, k)].text]

InsertStep == Len(log') = Len(log) + 1 /\ log'[Len(log')].op = "insert_dataset"

(* C23: rows reach the temporary tables in input order.  The loop never    *)
(* goes back to an earlier dataset, within an archive it goes from each    *)
(* member to the next, every insert is made for the dataset and the member *)
(* the loop is at, and a successful insert appends the unit rows of the    *)
(* member's document in document order.                                    *)
C23_RowsInInputOrder ==
    [][/\ di' >= di
       /\ (pc = "member" /\ pc' # "panic") => (mi' = mi + 1 /\ di' = di)
       /\ InsertStep =>
             /\ pc = "member"
             /\ log'[Len(log')].id = datasets[di].id
             /\ log'[Len(log')].ok =>
                   \A ids \in {UnitIdTexts(Documents[archive[mi]])} :
                      LET old == db[database_settings.temp_unit_table].rows
                          new == db'[database_settings.temp_unit_table].rows
                      IN /\ Len(new) = Len(old) + Len(ids)
                         /\ SubSeq(new, 1, Len(old)) = old
                         /\ \A j \in DOMAIN ids :
                               new[Len(old) + j][Sha1Hex[UnitIdPath]] = Text(ids[j])]_vars

(* the second member of the archive of the second dataset was inserted,    *)
(* with two units, after rows of the first dataset                         *)
C23_Witness ==
    /\ Last.op = "insert_dataset" /\ Last.ok /\ Last.n = 2
    /\ di = 2 /\ mi = 3
    /\ Len(TempUnit.rows) >= 4
    /\ TempUnit.rows[1][database_settings.surrogate_key_column] = 1
    /\ TempUnit.rows[Len(TempUnit.rows)][database_settings.surrogate_key_column] = 2

----------------------------------------------------------------------------
(* Properties of single calls of the sink (SinkSpec)                       *)

(* the dataset row of an external id exists in the temporary dataset table *)
HasDatasetRow(id) ==
    \E j \in DOMAIN TempDataset.rows :
        TempDataset.rows[j][database_settings.dataset_id_column] = Text(id)

(* C24: an insert_dataset call for an external id that has a dataset row   *)
(* leaves the temporary dataset table as it is, whatever metadata, path,   *)
(* landing page and provider the call brings; it does not attempt the      *)
(* dataset COPY and only appends its unit rows.                            *)
C24_ExistingDatasetRowIsKept ==
    [][(InsertStep /\ HasDatasetRow(log'[Len(log')].id)) =>
          LET call == log'[Len(log')]
              old == db[database_settings.temp_unit_table].rows
              new == db'[database_settings.temp_unit_table].rows
          IN /\ call.type = "Existing"
             /\ call.stage # "dataset_copy"
             /\ db'[database_settings.temp_dataset_table]
                   = db[database_settings.temp_dataset_table]
             /\ Len(new) = Len(old) + (IF call.ok THEN call.n ELSE 0)
             /\ SubSeq(new, 1, Len(old)) = old
             /\ \A n \in TableNames \ TempNames : db'[n] = db[n]]_vars

(* the id "a" was inserted twice, the second time with another path, title *)
(* and provider; the dataset row is the one of the first call              *)
C24_Witness ==
    /\ pc = "sink" /\ Len(Inserts) = 2
    /\ Inserts[1].ok /\ Inserts[1].id = "a" /\ Inserts[1].n = 1
    /\ Inserts[2].ok /\ Inserts[2].id = "a" /\ Inserts[2].n = 2
    /\ Len(TempDataset.rows) = 1
    /\ TempDataset.rows[1][database_settings.dataset_path_column] = Text("url-a")
    /\ TempDataset.rows[1][database_settings.dataset_provider_column] = Text("prov")
    /\ Len(TempUnit.rows) = 3

----------------------------------------------------------------------------
(* Properties of the outcome of a crawler run (Spec)                       *)

(* the run has begun to process datasets *)
Processing == \E i \in DOMAIN log : log[i].op = "download"

(* C25: the run ends with an error, no dataset processed, exactly when the *)
(* dictionary load, the sink creation or the enumeration failed; a failed  *)
(* dictionary load comes before any statement on the schema; and once the  *)
(* datasets are being processed no failed download, archive, member,       *)
(* insert or migration makes the run end with an error.                    *)
C25_RunFailsOnlyAtStartup ==
    /\ pc = "exit_err" <=> (~Last.ok /\ Last.op \in {"from_path", "new", "retrieve_all_entries"})
    /\ pc = "exit_err" => ~Processing
    /\ (Last.op = "from_path" /\ ~Last.ok) => (Len(log) = 1 /\ \A n \in TempNames : ~Exists(db, n))
    /\ Processing => pc \notin {"exit_err", "panic"}

----------------------------------------------------------------------------
(* Properties of the dictionary (FieldsSpec)                               *)

(* the array of descriptors the dictionary was loaded from *)
LoadedFields == log[1].items

DistinctPaths(fields) ==
    \A i, j \in DOMAIN fields : fields[i].name = fields[j].name => i = j

(* C26: for a dictionary loaded from an array of descriptors with distinct *)
(* paths, value_of returns the descriptor of the array that has the path   *)
(* and nothing for a path no descriptor has, and an iteration yields each  *)
(* descriptor of the array exactly once.                                   *)
C26_LookupAndIteration ==
    (pc = "fields" /\ DistinctPaths(LoadedFields)) =>
        \A k \in 2 .. Len(log) :
            /\ log[k].op = "value_of" =>
                  /\ log[k].result.some <=> \E i \in DOMAIN LoadedFields : LoadedFields[i].name = log[k].path
                  /\ log[k].result.some =>
                        \E i \in DOMAIN LoadedFields :
                            /\ LoadedFields[i].name = log[k].path
                            /\ log[k].result.field = LoadedFields[i]
            /\ log[k].op = "into_iter" =>
                  /\ Len(log[k].items) = Len(LoadedFields)
                  /\ \A i \in DOMAIN LoadedFields :
                        Cardinality({j \in DOMAIN log[k].items : log[k].items[j] = LoadedFields[i]}) = 1

C26_Witness ==
    /\ pc = "fields"
    /\ Len(LoadedFields) = MaxDescriptors
    /\ DistinctPaths(LoadedFields)
    /\ Len(log) = 3
    /\ log[2].op = "value_of" /\ log[2].result.some
    /\ log[3].op = "into_iter"
    /\ \E i \in DOMAIN LoadedFields : log[3].items[i] # LoadedFields[i]

----------------------------------------------------------------------------
(* Properties of the archive's byte iterator (ArchiveSpec)                 *)

(* C27: the k-th call of next yields the item of the k-th member, its      *)
(* bytes or a read error, whatever became of the members before it, and    *)
(* every call after the last member yields None.                           *)
C27_OneItemPerMemberInOrder ==
    pc = "bytes_iter" =>
        /\ mi = IF Len(log) < Len(archive) THEN Len(log) ELSE Len(archive)
        /\ \A k \in DOMAIN log :
              IF k <= Len(archive)
              THEN /\ log[k].some
                   /\ log[k].ok <=> archive[k] # "unreadable"
                   /\ log[k].ok => log[k].bytes = Documents[archive[k]]
              ELSE ~log[k].some

C27_Witness ==
    /\ pc = "bytes_iter"
    /\ Len(archive) = MaxMembers
    /\ Len(log) = MaxNextCalls
    /\ ~log[1].ok /\ log[2].ok /\ log[3].ok /\ log[2].bytes # log[3].bytes
    /\ ~log[4].some /\ ~log[5].some

----------------------------------------------------------------------------
(* Properties of the enumeration (SearchSpec)                              *)

(* the first answer of the server that fails or has no hits *)
LastRequest(server) ==
    CHOOSE k \in 1 .. Len(server) + 1 :
        /\ ~Answer(server, k).ok \/ Len(Answer(server, k).hits) = 0
        /\ \A j \in 1 .. k - 1 : Answer(server, j).ok /\ Len(Answer(server, j).hits) > 0

(* the hits of the first n answers, one after the other *)
RECURSIVE HitsUpTo(_, _)
HitsUpTo(server, n) ==
    IF n = 0 THEN <<>> ELSE HitsUpTo(server, n - 1) \o server[n].hits

(* C28: retrieve_all_entries sends the search request and then one scroll  *)
(* request per page with hits, each carrying the scroll id of the page     *)
(* before, and stops at the first page without hits, returning the hits of *)
(* the pages before it in request order; when a request fails it returns   *)
(* an error and no entries.                                                *)
C28_EntriesOfAllPages ==
    pc \in {"retrieved", "exit_err"} =>
        \A server \in {log[1].server} :
        \A last \in {LastRequest(server)} :
            /\ Len(log[1].requests) = last
            /\ log[1].requests[1] = SearchRequest
            /\ \A k \in 2 .. last : log[1].requests[k] = ScrollRequest(server[k - 1].scroll_id)
            /\ log[1].ok <=> Answer(server, last).ok
            /\ pc = "retrieved" <=> log[1].ok
            /\ datasets = IF log[1].ok THEN HitsUpTo(server, last - 1) ELSE <<>>

C28_Witness ==
    /\ pc = "retrieved"
    /\ Len(log[1].requests) = 3
    /\ log[1].server[1].scroll_id # log[1].server[2].scroll_id
    /\ Len(datasets) = 3

----------------------------------------------------------------------------
(* Properties of the archive files of a run (Spec)                         *)

(* name is the archive file name of the dataset id *)
IsArchiveName(name, id) ==
    /\ Len(name) = Len(id) + 4
    /\ SubSeq(name, Len(id) + 1, Len(id) + 4) = ".zip"
    /\ \A i \in 1 .. Len(id) :
          SubSeq(name, i, i) = IF SubSeq(id, i, i) \in KeptChars THEN SubSeq(id, i, i) ELSE "_"

(* the files of a directory a step wrote *)
Written(before, after) ==
    {f \in DOMAIN after : f \notin DOMAIN before \/ after[f] # before[f]}

(* C29: every file a step writes under the temp directory or under the     *)
(* storage directory is named by the id of the dataset at hand, its        *)
(* characters in order, each one outside A-Z, a-z and '-' replaced by '_', *)
(* followed by ".zip"; so both directories use the same name.              *)
C29_ArchiveFileName ==
    [][\A name \in Written(temp_dir, temp_dir') \cup Written(storage_dir.files, storage_dir'.files) :
          IsArchiveName(name, dataset.id)]_vars

C29_Witness ==
    /\ Last.op = "copy" /\ Last.ok
    /\ datasets[Last.n].id = "a/1"
    /\ temp_dir["a__.zip"] = Zip(<<"valid1", "valid2">>)
    /\ storage_dir.files["a__.zip"] = Zip(<<"valid1", "valid2">>)

----------------------------------------------------------------------------
(* Properties of the order of the migration (SinkSpec)                     *)

(* the statements of migrate_schema outside and inside the transaction *)
StatementsBefore == create_indexes_and_statistics
StatementsWithin == MigrationTransaction(sink_fields)

(* what a statement is and the object it names *)
StepOf(st) ==
    <<st.op,
      IF st.op \in {"add_foreign_key", "create_index", "cluster", "rename_constraint", "rename_index"}
      THEN st.name ELSE st.table>>

(* the first n statements of stmts run one after the other on d, each on   *)
(* the schema the one before left                                          *)
RECURSIVE Replay(_, _, _)
Replay(d, stmts, n) ==
    IF n = 0 THEN Ok(d)
    ELSE LET before == Replay(d, stmts, n - 1)
         IN IF before.ok THEN Exec(before.db, stmts[n]) ELSE before

(* C30: migrate_schema takes its steps in the order: foreign key, B-tree   *)
(* index, spatial index, cluster, vacuum-analyze of both tables, then in   *)
(* one transaction the drops of the listing view and of the published      *)
(* unit, dataset and translation tables, the renames of the three          *)
(* temporary tables, the renames of constraints and indexes and the new    *)
(* listing view, then commit; a call that got through k steps has run      *)
(* just the first k, each on the outcome of the one before.                *)
C30_MigrationStepsInOrder ==
    [][MigrateStep =>
          \A done \in {log'[Len(log')].n} :
          \A nBefore \in {Len(StatementsBefore)} :
          \A nWithin \in {Len(StatementsWithin)} :
          \A before \in {Replay(db, StatementsBefore, IF done < nBefore THEN done ELSE nBefore)} :
             /\ [i \in DOMAIN StatementsBefore |-> StepOf(StatementsBefore[i])]
                   = << <<"add_foreign_key", "abcd_units_temp_surrogate_key_fk">>,
                        <<"create_index", "abcd_units_temp_idx">>,
                        <<"create_index", "abcd_units_temp_geom_idx">>,
                        <<"cluster", "abcd_units_temp_idx">>,
                        <<"vacuum_analyze", "abcd_datasets_temp">>,
                        <<"vacuum_analyze", "abcd_units_temp">> >>
             /\ StatementsBefore[2].method = "btree" /\ StatementsBefore[3].method = "spgist"
             /\ [i \in DOMAIN StatementsWithin |-> StepOf(StatementsWithin[i])]
                   = << <<"drop_view_if_exists", "dataset_listing">>,
                        <<"drop_table_if_exists", "abcd_units">>,
                        <<"drop_table_if_exists", "abcd_datasets">>,
                        <<"drop_table_if_exists", "abcd_datasets_translation">>,
                        <<"rename_table", "abcd_units_temp">>,
                        <<"rename_table", "abcd_datasets_temp">>,
                        <<"rename_table", "abcd_datasets_temp_translation">>,
                        <<"rename_constraint", "abcd_datasets_temp_pkey">>,
                        <<"rename_constraint", "abcd_units_temp_surrogate_key_fk">>,
                        <<"rename_index", "abcd_units_temp_idx">>,
                        <<"rename_index", "abcd_units_temp_geom_idx">>,
                        <<"create_view", "dataset_listing">> >>
             /\ log'[Len(log')].ok <=> done = nBefore + nWithin + 2
             /\ before.ok
             /\ done > nBefore + 1 =>
                   Replay(before.db, StatementsWithin,
                          IF done - nBefore - 1 < nWithin THEN done - nBefore - 1 ELSE nWithin).ok
             /\ db' = IF log'[Len(log')].ok
                      THEN Replay(before.db, StatementsWithin, nWithin).db
                      ELSE before.db]_vars

C30_Witness ==
    /\ Last.op = "migrate_schema" /\ ~Last.ok
    /\ Last.n = Len(create_indexes_and_statistics) + 1 + Len(drop_old_tables) + 1
    /\ Exists(db, database_settings.unit_table)
    /\ \E o \in TempUnit.objs : o.kind = "spgist"

----------------------------------------------------------------------------
(* Properties of a failed insert (SinkSpec)                                *)

(* C31: an insert_dataset call that returns an error leaves the temporary  *)
(* dataset table, the temporary unit table and the registry of surrogate   *)
(* keys as they were before the call.                                      *)
C31_FailedInsertChangesNothing ==
    [][(InsertStep /\ ~log'[Len(log')].ok) =>
          /\ db'[database_settings.temp_dataset_table] = db[database_settings.temp_dataset_table]
          /\ db'[database_settings.temp_unit_table] = db[database_settings.temp_unit_table]
          /\ surrogate_key' = surrogate_key]_vars

----------------------------------------------------------------------------
(* Properties of repeated texts (ParseSpec)                                *)

(* the texts of a record at a path of the dictionary *)
TextsAt(paths, w, path) == {i \in DOMAIN paths : w.lo < i /\ i < w.hi /\ paths[i] = path}

(* the largest number of a non-empty set *)
MaxOf(set) == CHOOSE x \in set : \A y \in set : y <= x

(* C32: when a record holds several texts at the path of one field, its    *)
(* map holds for a text field the last of them, and for a numeric field    *)
(* the number of the last of them that is a number.                        *)
C32_LastTextWins ==
    (Returned /\ LastParse.outcome = "Ok") =>
        \A events \in {EventsOf(LastParse.doc)} :
        \A paths \in {TextPaths(events)} :
        \A w \in Windows(events, LastParse.data) :
        \A path \in DOMAIN ParserFields :
        \A texts \in {TextsAt(paths, w, path)} :
            Cardinality(texts) >= 2 =>
                IF ParserFields[path].numeric
                THEN \A numbers \in {ParsableTexts(events, paths, w, path)} :
                        numbers # {} =>
                            /\ path \in DOMAIN w.map
                            /\ w.map[path] = Numeric(parse_f64(events[MaxOf(numbers)].text).number)
                ELSE /\ path \in DOMAIN w.map
                     /\ w.map[path] = Textual(events[MaxOf(texts)].text)

(* a result whose dataset map holds the later of two numbers and the later *)
(* of two texts, and whose first unit holds a number that followed a text  *)
(* that is none                                                            *)
C32_Witness ==
    /\ Returned /\ LastParse.outcome = "Ok"
    /\ MajorPath \in DOMAIN LastParse.data.dataset
    /\ LastParse.data.dataset[MajorPath] = Numeric("10")
    /\ LastParse.data.dataset[UriPath] = Textual("http://b")
    /\ Len(LastParse.data.units) = 2
    /\ LastParse.data.units[1] = (LatitudePath :> Numeric("1")) @@ (UnitIdPath :> Textual("u7"))

----------------------------------------------------------------------------
(* Properties of the recorded ABCD version (ParseSpec)                     *)

(* the values of the attributes of the start tag whose path is /DataSets *)
DataSetsAttributes(events) ==
    UNION {Range(events[i].attrs) :
              i \in {j \in DOMAIN events : events[j].e = "Start" /\ PathAt(events, j) = "/DataSets"}}

(* C33: after a parse call returns, the version the parser records is that *)
(* of the schema URI among the attributes of the /DataSets start tag of    *)
(* the document just parsed, and Unknown when it has none, whatever the    *)
(* parser parsed before.                                                   *)
C33_VersionOfLastDocument ==
    Returned =>
        \A attrs \in {DataSetsAttributes(EventsOf(LastParse.doc))} :
            parser.abcd_version =
                IF "http://www.tdwg.org/schemas/abcd/2.06" \in attrs THEN "Version206"
                ELSE IF "http://www.tdwg.org/schemas/abcd/2.1" \in attrs THEN "Version210"
                ELSE "Unknown"

----------------------------------------------------------------------------
(* Properties of the B-tree index (IndexSpec)                              *)

(* the B-tree indexes of the temporary unit table *)
UnitBtrees == {o \in db[database_settings.temp_unit_table].objs : o.kind = "btree"}

(* C34: the B-tree index create_indexes_and_statistics creates on the      *)
(* temporary unit table covers the surrogate key alone when no indexed     *)
(* unit column is configured, and otherwise the surrogate key followed by  *)
(* the hash of each configured column in configured order.                 *)
C34_BtreeColumns ==
    (pc = "indexed" /\ Last.n >= 2) =>
        \A configured \in {Last.unit_indexed_columns} :
            /\ Cardinality(UnitBtrees) = 1
            /\ \A o \in UnitBtrees :
                  /\ o.name = "abcd_units_temp_idx"
                  /\ Len(o.columns) = 1 + Len(configured)
                  /\ o.columns[1] = "surrogate_key"
                  /\ \A i \in DOMAIN configured : o.columns[i + 1] = Sha1Hex[configured[i]]
                  /\ configured = <<>> => o.columns = <<"surrogate_key">>

(* an index over two configured columns in an order that is not that of    *)
(* the table                                                               *)
C34_Witness ==
    /\ pc = "indexed" /\ Last.ok
    /\ Last.unit_indexed_columns = <<LongitudePath, UnitIdPath>>
    /\ \E o \in UnitBtrees : Len(o.columns) = 3

----------------------------------------------------------------------------
(* Properties of the path buffer during a parse (ParseSpec)                *)

(* the parse state after the first k events of a call on a cleared parser  *)
(* built as the parser of the run was                                      *)
StateAfter(events, k) ==
    One({ParseLoop(st, events, 1, k) :
         st \in {ParseState(AbcdParserNew(parser.abcd_settings, parser.abcd_fields))}})

(* C35: during a parse, after every start or end event the path buffer is  *)
(* '/' and the local name of each element open at that point, outermost    *)
(* first; an end event finds in the buffer at least the bytes it removes,  *)
(* and after the end of the root element the buffer is empty.              *)
C35_PathIsOpenElements ==
    Parsed =>
        \A events \in {EventsOf(LastParse.doc)} :
        \A depth \in {Depths(events)} :
        \A states \in {[k \in 0 .. Len(events) |-> StateAfter(events, k).xml_tag_path]} :
        \A k \in {i \in DOMAIN events : events[i].e \in {"Start", "End"}} :
        \A open \in {{j \in 1 .. k : events[j].e = "Start"
                                      /\ \A m \in j .. k : depth[m] >= depth[j]}} :
            /\ states[k] = PathOf(events, open)
            /\ events[k].e = "End" =>
                  /\ Len(states[k - 1]) >= Len(LocalName(events[k].name)) + 1
                  /\ open = {} => Len(states[k]) = 0

(* a returned parse of a document with prefixed tags whose root element    *)
(* ends, with an element nested seven deep                                 *)
C35_Witness ==
    /\ Returned
    /\ LastParse.doc.prefix = "abcd:"
    /\ \E events \in {EventsOf(LastParse.doc)} :
          /\ \E k \in DOMAIN events : events[k].e = "End" /\ OpenAt(events, k) = {}
          /\ \E k \in DOMAIN events : Cardinality(OpenAt(events, k)) >= 7

----------------------------------------------------------------------------
(* Properties of the snapshots of the working map (ParseSpec)              *)

(* C36: the working map is empty right after the event of every snapshot,  *)
(* the start of /DataSets/DataSet/Units and the end of each Unit directly  *)
(* under it; so every value of a returned map comes from a text of that    *)
(* map's own record, and the value of one text is in no second map.        *)
C36_SnapshotEmptiesWorkingMap ==
    Parsed =>
        \A events \in {EventsOf(LastParse.doc)} :
            /\ \A k \in UnitsStarts(events) \cup UnitEnds(events) :
                  DOMAIN StateAfter(events, k).values = {}
            /\ (Returned /\ LastParse.outcome = "Ok") =>
                  \A paths \in {TextPaths(events)} :
                  \A w \in Windows(events, LastParse.data) :
                  \A path \in DOMAIN w.map :
                     \E i \in TextsAt(paths, w, path) :
                        /\ ValueAt(path, events[i].text).some
                        /\ ValueAt(path, events[i].text).value = w.map[path]

(* a result with dataset values, a first unit with values and a second     *)
(* unit without any                                                        *)
C36_Witness ==
    /\ Returned /\ LastParse.outcome = "Ok"
    /\ DOMAIN LastParse.data.dataset # {}
    /\ Len(LastParse.data.units) = 2
    /\ DOMAIN LastParse.data.units[1] # {}
    /\ DOMAIN LastParse.data.units[2] = {}

----------------------------------------------------------------------------
(* Properties of the registry of surrogate keys (KeySpec)                  *)

(* the keys of the n stored ids are pairwise distinct, they are 1..n, and  *)
(* the next key is n + 1                                                   *)
KeysAreDense(sk) ==
    LET ids == DOMAIN sk.id_to_key
        n == Cardinality(ids)
    IN /\ \A x, y \in ids : x # y => sk.id_to_key[x] # sk.id_to_key[y]
       /\ {sk.id_to_key[x] : x \in ids} = 1 .. n
       /\ sk.next_key = n + 1

(* C37: in every state of the registry the stored keys are pairwise        *)
(* distinct, they are exactly 1..n for n stored ids and the next key is    *)
(* n + 1; a for_id call that returns Existing leaves the registry as it    *)
(* was, and no call changes the key of an id already stored.               *)
C37_RegistryIsDenseAndStable ==
    [][/\ KeysAreDense(surrogate_key)
       /\ KeysAreDense(surrogate_key')
       /\ log'[Len(log')].type = "Existing" => surrogate_key' = surrogate_key
       /\ \A id \in DOMAIN surrogate_key.id_to_key :
             /\ id \in DOMAIN surrogate_key'.id_to_key
             /\ surrogate_key'.id_to_key[id] = surrogate_key.id_to_key[id]]_vars

(* two ids are stored and the last call, for one of them, returned Existing *)
C37_Witness ==
    /\ pc = "registry"
    /\ Cardinality(DOMAIN surrogate_key.id_to_key) = 2
    /\ Len(log) >= 3
    /\ log[Len(log)].type = "Existing"
    /\ log[Len(log) - 1].type = "New"

----------------------------------------------------------------------------
(* Properties of the rows insert_dataset hands to COPY (SinkSpec)          *)

(* the parse results an insert_dataset step recorded as e may have written *)
InputsOf(e) ==
    {d \in {AsParsed(r) : r \in SinkResults} :
        d.dataset_id = e.id /\ Len(d.units) = e.n}

(* C38: every row handed to COPY has as many fields as the statement names *)
(* columns, in the same order: a dataset row is the five fixed fields and  *)
(* one field per dataset field of the sink, a unit row is the surrogate    *)
(* key, one field per unit field of the sink and geom last; the field      *)
(* lists of the sink are the same for every row of the run.                *)
C38_CopyRowsMatchColumns ==
    [][InsertStep =>
          /\ sink_fields' = sink_fields
          /\ \A e \in {log'[Len(log')]} :
             \A abcd_data \in InputsOf(e) :
             \A ds \in {insert_dataset_metadata(sink_fields.dataset_fields, abcd_data, e.key)} :
             \A us \in {insert_units(sink_fields.unit_fields, abcd_data, e.key)} :
             \A nd \in {Len(sink_fields.dataset_fields)} :
             \A nu \in {Len(sink_fields.unit_fields)} :
                /\ Len(ds.columns) = 5 + nd
                /\ SubSeq(ds.columns, 1, 5)
                      = <<database_settings.surrogate_key_column,
                          database_settings.dataset_id_column,
                          database_settings.dataset_path_column,
                          database_settings.dataset_landing_page_column,
                          database_settings.dataset_provider_column>>
                /\ \A i \in 1 .. nd :
                      ds.columns[5 + i] = sink_fields.dataset_fields[i].hash
                /\ Len(ds.rows) = 1
                /\ Len(ds.rows[1]) = Len(ds.columns)
                /\ SubSeq(ds.rows[1], 1, 5)
                      = <<e.key, abcd_data.dataset_id, abcd_data.dataset_path,
                          abcd_data.landing_page, abcd_data.provider_name>>
                /\ \A i \in 1 .. nd :
                      ds.rows[1][5 + i]
                         = Lookup(abcd_data.dataset, sink_fields.dataset_fields[i].name)
                /\ Len(us.columns) = nu + 2
                /\ us.columns[1] = database_settings.surrogate_key_column
                /\ \A i \in 1 .. nu :
                      us.columns[1 + i] = sink_fields.unit_fields[i].hash
                /\ us.columns[nu + 2] = "geom"
                /\ Len(us.rows) = Len(abcd_data.units)
                /\ \A u \in DOMAIN us.rows :
                      /\ Len(us.rows[u]) = Len(us.columns)
                      /\ us.rows[u][1] = e.key
                      /\ \A i \in 1 .. nu :
                            us.rows[u][1 + i]
                               = Lookup(abcd_data.units[u], sink_fields.unit_fields[i].name)
                      /\ us.rows[u][nu + 2]
                            = GeomField(sink_fields.unit_fields, abcd_data.units[u])]_vars

(* a sink with a dataset field and three or more unit fields has written   *)
(* three units, of which some lack a value for some unit field             *)
C38_Witness ==
    /\ pc = "sink"
    /\ Last.op = "insert_dataset" /\ Last.ok /\ Last.n = 3
    /\ Len(sink_fields.dataset_fields) >= 1
    /\ Len(sink_fields.unit_fields) >= 3
    /\ Len(TempUnit.rows) >= 3
    /\ \E i \in DOMAIN TempUnit.rows :
       \E f \in Range(sink_fields.unit_fields) : TempUnit.rows[i][f.hash] = Null

----------------------------------------------------------------------------
(* Properties of the file paths of the datasets of a run (Spec)            *)

(* the dataset at index j of the run had its archive stored in the cache *)
StoredBy(j) == \E k \in DOMAIN log : log[k].op = "copy" /\ log[k].ok /\ log[k].n = j

(* C39: two enumerated datasets with different ids never share a temp file *)
(* path or a storage file path; so the archive a dataset recovers from the *)
(* cache was not stored for a dataset of another id, and storing the       *)
(* archive of a dataset never overwrites the cached archive of another.    *)
C39_DistinctIdsHaveDistinctPaths ==
    [][/\ \A i, j \in DOMAIN datasets :
             datasets[i].id # datasets[j].id
                => ZipPath(datasets[i].id) # ZipPath(datasets[j].id)
       /\ (pc = "recover" /\ log'[Len(log')].ok) =>
             \A j \in 1 .. di - 1 :
                (StoredBy(j) /\ datasets[j].id # dataset.id)
                   => ZipPath(datasets[j].id) # ZipPath(dataset.id)
       /\ (pc = "cache" /\ CopyAttempted /\ log'[Len(log')].ok) =>
             \A j \in 1 .. di - 1 :
                (StoredBy(j) /\ datasets[j].id # dataset.id)
                   => storage_dir'.files[ZipPath(datasets[j].id)]
                         = storage_dir.files[ZipPath(datasets[j].id)]]_vars

----------------------------------------------------------------------------
(* Properties of the published relations during the ingestion (SinkSpec)   *)

(* the published tables and the listing view of schema e are those of d *)
SamePublished(d, e) == \A n \in PublishedNames : e[n] = d[n]

(* C40: from the construction of the sink until the migration transaction  *)
(* commits no operation changes a published table or the listing view:     *)
(* not the creation of the temporary schema, not insert_dataset, not the   *)
(* creation of indexes and statistics, however far it gets, and not a      *)
(* migration that does not commit.                                         *)
C40_PublishedUntouchedBeforeCommit ==
    [][/\ (NewStep \/ InsertStep) => SamePublished(db, db')
       /\ MigrateStep =>
             /\ \A failAt \in 0 .. Len(create_indexes_and_statistics) :
                   SamePublished(db, RunFrom(db, create_indexes_and_statistics, 1, failAt).db)
             /\ ~log'[Len(log')].ok => SamePublished(db, db')]_vars

(* two datasets were inserted while the schema held the published tables,  *)
(* with their rows, and the listing view of an earlier run                 *)
C40_Witness ==
    /\ pc = "sink"
    /\ Last.op = "insert_dataset" /\ Last.ok
    /\ Len(TempDataset.rows) = 2
    /\ db[database_settings.listing_view].kind = "view"
    /\ Len(db[database_settings.dataset_table].rows) = 1
    /\ Len(db[database_settings.unit_table].rows) >= 1
    /\ db[TranslationOf(database_settings.dataset_table)].kind = "table"
====
